---- MODULE Spec2Model ----
(***************************************************************************)
(* Barrett bot: the data-acquisition and notification core.                *)
(*                                                                         *)
(*  - BarrettBot (bot.ts): cadence ticks (processPriceUpdate), the         *)
(*    emergency sweep (checkForExtremeMovements), checkEmergencyAlerts,    *)
(*    checkPriceAlerts, and the alert commands of CommandHandlers.         *)
(*  - PriceService.makeRequestWithRetry and WalletService                  *)
(*    .rateLimitedRequest / get*BalanceWithRetry (the provider resolver).  *)
(*                                                                         *)
(* Every handler is an async function on one event loop.  An action of     *)
(* this module is one run-to-suspension segment of a handler: it starts    *)
(* where a network await (upstream fetch, transport send, store call)      *)
(* resolves and runs to the next such await.  An await of getUserSettings  *)
(* for a chat whose settings are loaded resolves without I/O and is not a  *)
(* suspension point of the model.                                          *)
(***************************************************************************)
EXTENDS Integers, Sequences, FiniteSets, TLC

(***************************************************************************)
(* Universe of the model                                                   *)
(***************************************************************************)
Chats == {1, 2}
Procs == {1, 2}                 \* concurrently running timer callbacks
Intervals == {"15min", "30min", "1h", "2h"}
Kinds == {"CRASH", "PUMP", "EXTREME VOLATILITY"}

\* PriceService.SUPPORTED_CRYPTOS, first entries, in catalog order
SUPPORTED_CRYPTOS ==
  << [id |-> "ethereum",    symbol |-> "ETH"],
     [id |-> "bitcoin",     symbol |-> "BTC"],
     [id |-> "binancecoin", symbol |-> "BNB"],
     [id |-> "cardano",     symbol |-> "ADA"],
     [id |-> "solana",      symbol |-> "SOL"],
     [id |-> "chainlink",   symbol |-> "LINK"] >>

CryptoIds == {SUPPORTED_CRYPTOS[n].id : n \in 1..Len(SUPPORTED_CRYPTOS)}

\* PriceService.findCryptoBySymbol: the catalog id with that symbol, or "none"
findCryptoBySymbol(sym) ==
  IF \E n \in 1..Len(SUPPORTED_CRYPTOS) : SUPPORTED_CRYPTOS[n].symbol = sym
  THEN SUPPORTED_CRYPTOS[CHOOSE n \in 1..Len(SUPPORTED_CRYPTOS) :
                            SUPPORTED_CRYPTOS[n].symbol = sym].id
  ELSE "none"

\* the symbol getCryptoPrices puts in a PriceData entry for an id
SymbolOf(id) ==
  SUPPORTED_CRYPTOS[CHOOSE n \in 1..Len(SUPPORTED_CRYPTOS) :
                      SUPPORTED_CRYPTOS[n].id = id].symbol

(***************************************************************************)
(* Program constants                                                       *)
(***************************************************************************)
DEDUP_WINDOW_MS == 3600000      \* checkEmergencyAlerts: (now - lastAlert) < 3600000
FOUR_HOURS_MS == 14400000       \* hourly cleanup: fourHoursAgo = now - 14400000
HISTORY_MAX == 50               \* processPriceUpdate: if (history.length > 50)
HISTORY_KEEP == 25              \* processPriceUpdate: history.slice(-25)
EXTREME_CEILING == 20           \* Math.abs(change24h) >= 20
MAX_RETRIES == 3                \* makeRequestWithRetry(url, maxRetries = 3)

(***************************************************************************)
(* Bounds                                                                  *)
(***************************************************************************)
MaxPruneClockSteps == 4         \* the clock of the prune runs advances at most this many steps
MaxHistoryUpdates == 55         \* price updates stored at most
MaxLimitCommands == 7           \* alert commands handled in a run about the alert limit
MaxLimitAlerts == 6             \* alerts created in a run about the alert limit
StartMs == 1800000              \* Date.now() at construction
ShortStepMs == 1000             \* a short step of the clock: one second
LongStepMs == 3599000           \* a long step of the clock: one second short of an hour
MaxClockSteps == 2              \* the clock advances at most this many steps
MaxAlertsCreated == 2           \* alerts ever created (loaded or /setalert)
MaxCommands == 1                \* user commands handled in one behaviour

(***************************************************************************)
(* Sequence helpers (Array.prototype)                                      *)
(***************************************************************************)
Range(s) == {s[n] : n \in 1..Len(s)}

Includes(s, x) == \E n \in 1..Len(s) : s[n] = x

\* Array.prototype.splice(i, 1) with a 1-based index: out of range removes nothing
Splice(s, i) ==
  IF i \in 1..Len(s)
  THEN [n \in 1..(Len(s) - 1) |-> IF n < i THEN s[n] ELSE s[n + 1]]
  ELSE s

\* new Set(); forEach(add): append the elements of t not yet present, in order
RECURSIVE AddAll(_, _)
AddAll(s, t) ==
  IF t = << >> THEN s
  ELSE AddAll(IF Includes(s, Head(t)) THEN s ELSE Append(s, Head(t)), Tail(t))

(***************************************************************************)
(* State                                                                   *)
(***************************************************************************)
VARIABLES
  now,                    \* Date.now(), in ms
  market,                 \* what the upstream answers for each asset
  subscribedChats,        \* Set<number>, in insertion order
  userSettings,           \* Map<number, UserSettings>
  alerts,                 \* Map<number, Alert[]>: entries [chatId, arr] in insertion order
  arrs,                   \* the Alert[] objects, by reference
  store,                  \* AlertModel documents with active: true
  recentEmergencyAlerts,  \* Map<string, number>; 0 stands for no entry
  tk,                     \* the running timer callbacks
  nextAlertId,            \* identity of the next Alert object created
  commands,               \* user commands handled so far
  clockSteps,             \* clock steps taken so far
  firedAlerts,            \* history: alerts whose notification was delivered
  emDelivered,            \* history: latest recorded stamp of a delivered emergency alert
  stopped,                \* history: chats whose /stop was handled, until their next /start
  rq,                     \* the running getWalletBalance / getCryptoPrices request
  addMenu,                \* per chat: the crypto_add_ buttons its settings message shows
  lastRequestTime,        \* per gate: the static lastRequestTime of its service
  gc,                     \* the callers of the rate-limit gates
  priceHistory,           \* Map<string, PriceData[]>: per symbol, the quotes kept
  historySeq,             \* history: price updates stored so far
  known,                  \* the chats that have an entry in the userSettings Map
  starting,               \* the chats whose /start awaits the upsert of its defaults
  settingsStore           \* UserSettingsModel: per chat its document, or NoSettings

botVars == << subscribedChats, userSettings, alerts, arrs, store, recentEmergencyAlerts >>
envVars == << now, market, clockSteps >>
histVars == << firedAlerts, emDelivered, stopped >>
walletVars == << rq >>
menuVars == << addMenu >>
gateVars == << lastRequestTime, gc >>
schedulerVars == << now, market, subscribedChats, userSettings, alerts, arrs, store,
                    recentEmergencyAlerts, tk, nextAlertId, commands, clockSteps,
                    firedAlerts, emDelivered, stopped >>
historyVars == << priceHistory, historySeq >>
settingsVars == << known, starting >>
vars == << schedulerVars, walletVars, menuVars, gateVars, historyVars, settingsVars, settingsStore >>

ArrIds == 1..(Cardinality(Chats) + Cardinality(Procs))

NoAlert == [id |-> 0, chatId |-> 0, cryptoId |-> "none", type |-> "none", price |-> 0,
            active |-> FALSE]
NoSettings == [currency |-> "usd", trackedCryptos |-> << >>, updateInterval |-> "none",
               emergencyAlerts |-> FALSE, emergencyThreshold |-> 0]
NoPend == [cryptoId |-> "none", kind |-> "none", now |-> 0, change |-> 0, seen |-> 0]

\* a timer callback that is not running
IdleTk ==
  [pc |-> "idle", interval |-> "none", targetChats |-> << >>, req |-> << >>,
   attempt |-> 0, n429 |-> 0, pricesData |-> << >>,
   ci |-> 0, chatId |-> 0, cs |-> NoSettings, pi |-> 0, pend |-> NoPend,
   ai |-> 0, achat |-> 0, ua |-> 0, i |-> 0, alert |-> NoAlert,
   messages |-> << >>, k |-> 0,
   log |-> << >>, alog |-> << >>, firedAtStart |-> {}, failed |-> {}]

\* no request running
IdleRq ==
  [pc |-> "idle", kind |-> "none", chain |-> "none", prov |-> 0, attempt |-> 0,
   delays |-> << >>, tried |-> << >>, result |-> 0, priced |-> FALSE]

Key(chatId, cryptoId, kind) == << chatId, cryptoId, kind >>
Keys == Chats \X CryptoIds \X Kinds

(***************************************************************************)
(* checkEmergencyAlerts                                                    *)
(***************************************************************************)
Abs(x) == IF x < 0 THEN -x ELSE x

\* variant: a pump only from twice the threshold
EmergencyKind_PumpAtDouble(change24h, threshold) ==
  IF change24h <= -threshold THEN "CRASH"
  ELSE IF change24h >= 2 * threshold THEN "PUMP"
  ELSE IF Abs(change24h) >= EXTREME_CEILING THEN "EXTREME VOLATILITY"
  ELSE "none"

\* variant: the fixed ceiling is looked at first
EmergencyKind_CeilingFirst(change24h, threshold) ==
  IF Abs(change24h) >= EXTREME_CEILING THEN "EXTREME VOLATILITY"
  ELSE IF change24h <= -threshold THEN "CRASH"
  ELSE IF 2 * change24h >= 3 * threshold THEN "PUMP"
  ELSE "none"

\* variant: no fixed ceiling
EmergencyKind_NoCeiling(change24h, threshold) ==
  IF change24h <= -threshold THEN "CRASH"
  ELSE IF 2 * change24h >= 3 * threshold THEN "PUMP"
  ELSE "none"

\* the condition chain of checkEmergencyAlerts; threshold * 1.5 is compared as
\* 2 * change >= 3 * threshold
EmergencyKind(change24h, threshold) ==
  IF change24h <= -threshold THEN "CRASH"
  ELSE IF 2 * change24h >= 3 * threshold THEN "PUMP"
  ELSE IF Abs(change24h) >= EXTREME_CEILING THEN "EXTREME VOLATILITY"
  ELSE "none"

Change24h(q, settings) ==
  IF settings.currency = "usd" THEN q.change24hUsd ELSE q.change24hEur

CurrentPrice(q, settings) ==
  IF settings.currency = "usd" THEN q.priceUsd ELSE q.priceEur

\* lastAlert && (now - lastAlert) < 3600000
Suppressed(recent, key, t) ==
  recent[key] # 0 /\ (t - recent[key]) < DEDUP_WINDOW_MS

\* The loops of checkEmergencyAlerts from position st up to the next
\* sendMessage (status "await") or to their end (status "done").  st.ci counts
\* the entries of subscribedChats consumed by the outer iterator, st.chatId is
\* the chat of the running inner loop (0: none), st.cs its settings as read at
\* the top of the outer iteration, st.pi the entries of pricesData consumed.
\* st.log lists the evaluations made on the way.
RECURSIVE EmScan(_, _, _, _)
EmScan(subs, recent, pd, st) ==
  IF st.chatId = 0
  THEN IF st.ci >= Len(subs)
       THEN [st EXCEPT !.status = "done"]
       ELSE LET c == subs[st.ci + 1]
                s == userSettings[c]
            IN IF ~s.emergencyAlerts
               THEN EmScan(subs, recent, pd, [st EXCEPT !.ci = @ + 1])
               ELSE EmScan(subs, recent, pd,
                           [st EXCEPT !.ci = @ + 1, !.chatId = c, !.cs = s, !.pi = 0])
  ELSE IF st.pi >= Len(pd)
  THEN EmScan(subs, recent, pd, [st EXCEPT !.chatId = 0, !.cs = NoSettings, !.pi = 0])
  ELSE LET q == pd[st.pi + 1]
           crypto == findCryptoBySymbol(q.symbol)
           next == [st EXCEPT !.pi = @ + 1]
       IN IF crypto = "none" \/ ~Includes(st.cs.trackedCryptos, crypto)
          THEN EmScan(subs, recent, pd, next)
          ELSE LET change24h == Change24h(q, st.cs)
                   alertType == EmergencyKind(change24h, st.cs.emergencyThreshold)
                   alertKey == Key(st.chatId, crypto, alertType)
                   entry(v) == [chatId |-> st.chatId, cryptoId |-> crypto,
                                change |-> change24h,
                                threshold |-> st.cs.emergencyThreshold,
                                kind |-> alertType, verdict |-> v]
               IN IF alertType = "none"
                  THEN EmScan(subs, recent, pd,
                              [next EXCEPT !.log = Append(@, entry("none"))])
                  ELSE IF Suppressed(recent, alertKey, now)
                  THEN EmScan(subs, recent, pd,
                              [next EXCEPT !.log = Append(@, entry("suppressed"))])
                  ELSE [next EXCEPT !.status = "await",
                                    !.log = Append(@, entry("send")),
                                    !.pend = [cryptoId |-> crypto, kind |-> alertType,
                                              now |-> now, change |-> change24h,
                                              seen |-> emDelivered[alertKey]]]

(***************************************************************************)
(* checkPriceAlerts                                                        *)
(***************************************************************************)
\* pricesData.find(p => findCryptoBySymbol(p.symbol)?.id === alert.cryptoId): index or 0
FindPriceData(pd, cryptoId) ==
  IF \E n \in 1..Len(pd) : findCryptoBySymbol(pd[n].symbol) = cryptoId
  THEN CHOOSE n \in 1..Len(pd) :
         /\ findCryptoBySymbol(pd[n].symbol) = cryptoId
         /\ \A m \in 1..(n - 1) : findCryptoBySymbol(pd[m].symbol) # cryptoId
  ELSE 0

\* variant: strict comparisons
ShouldTrigger_Strict(alert, currentPrice) ==
  \/ alert.type = "above" /\ currentPrice > alert.price
  \/ alert.type = "below" /\ currentPrice < alert.price

\* lines 383-389
ShouldTrigger(alert, currentPrice) ==
  \/ alert.type = "above" /\ currentPrice >= alert.price
  \/ alert.type = "below" /\ currentPrice <= alert.price

\* The loops of checkPriceAlerts from position st up to the next sendMessage
\* ("await"), to their end ("done") or to the TypeError of reading .active of
\* userAlerts[i] when the array has become shorter than i ("throw").  st.ai
\* counts the entries of this.alerts consumed, st.ua is the array of the running
\* inner loop (0: none), st.i its 1-based index.  st.alog lists the evaluations
\* of active alerts made on the way.
RECURSIVE AlScan(_, _, _, _)
AlScan(amap, heap, pd, st) ==
  IF st.ua = 0
  THEN IF st.ai >= Len(amap)
       THEN [st EXCEPT !.status = "done"]
       ELSE LET e == amap[st.ai + 1]
            IN AlScan(amap, heap, pd,
                      [st EXCEPT !.ai = @ + 1, !.achat = e.chatId, !.ua = e.arr,
                                 !.i = Len(heap[e.arr])])
  ELSE IF st.i < 1
  THEN AlScan(amap, heap, pd, [st EXCEPT !.achat = 0, !.ua = 0, !.i = 0])
  ELSE IF st.i > Len(heap[st.ua])
  THEN [st EXCEPT !.status = "throw"]
  ELSE LET alert == heap[st.ua][st.i]
           n == FindPriceData(pd, alert.cryptoId)
           next == [st EXCEPT !.i = @ - 1]
           entry(cur, v) == [alert |-> alert, owner |-> st.achat, present |-> n # 0,
                             currentPrice |-> cur, verdict |-> v]
       IN IF ~alert.active
          THEN AlScan(amap, heap, pd, next)
          ELSE IF n = 0
          THEN AlScan(amap, heap, pd, [next EXCEPT !.alog = Append(@, entry(0, "skip"))])
          ELSE LET currentPrice == CurrentPrice(pd[n], userSettings[st.achat])
               IN IF ShouldTrigger(alert, currentPrice)
                  THEN [st EXCEPT !.status = "await", !.alert = alert,
                                  !.alog = Append(@, entry(currentPrice, "trigger"))]
                  ELSE AlScan(amap, heap, pd,
                              [next EXCEPT !.alog = Append(@, entry(currentPrice, "skip"))])

(***************************************************************************)
(* Map<number, Alert[]> and Set<number> with live iterators                *)
(***************************************************************************)
MapIndex(amap, chatId) ==
  IF \E n \in 1..Len(amap) : amap[n].chatId = chatId
  THEN CHOOSE n \in 1..Len(amap) : amap[n].chatId = chatId
  ELSE 0

\* this.alerts.get(chatId): the array, or 0 for undefined
MapGet(amap, chatId) ==
  IF MapIndex(amap, chatId) = 0 THEN 0 ELSE amap[MapIndex(amap, chatId)].arr

\* this.alerts.set(chatId, arr): an existing key keeps its place
MapSet(amap, chatId, arr) ==
  IF MapIndex(amap, chatId) = 0
  THEN Append(amap, [chatId |-> chatId, arr |-> arr])
  ELSE [amap EXCEPT ![MapIndex(amap, chatId)].arr = arr]

\* this.alerts.delete(chatId)
MapDelete(amap, chatId) == Splice(amap, MapIndex(amap, chatId))

SetIndex(subs, chatId) ==
  IF Includes(subs, chatId) THEN CHOOSE n \in 1..Len(subs) : subs[n] = chatId ELSE 0

\* this.subscribedChats.add / delete
SetAdd(subs, chatId) == IF Includes(subs, chatId) THEN subs ELSE Append(subs, chatId)
SetDelete(subs, chatId) == Splice(subs, SetIndex(subs, chatId))

\* A running for-of iterator that has consumed the removed entry, or one after
\* it, has consumed one entry less of what is left.
AdjustCi(tkf, idx) ==
  [q \in Procs |-> IF idx > 0 /\ tkf[q].ci >= idx
                   THEN [tkf[q] EXCEPT !.ci = @ - 1] ELSE tkf[q]]

AdjustAi(tkf, idx) ==
  [q \in Procs |-> IF idx > 0 /\ tkf[q].ai >= idx
                   THEN [tkf[q] EXCEPT !.ai = @ - 1] ELSE tkf[q]]

\* arrays no variable refers to any more are collected
Referenced(amap, tkf) ==
  {amap[n].arr : n \in 1..Len(amap)} \cup {tkf[q].ua : q \in Procs}

Gc(heap, amap, tkf) ==
  [a \in ArrIds |-> IF a \in Referenced(amap, tkf) THEN heap[a] ELSE << >>]

(***************************************************************************)
(* processPriceUpdate / checkForExtremeMovements                           *)
(***************************************************************************)
\* the trackedCryptos of the chats of a list, one after the other
RECURSIVE TrackedOf(_)
TrackedOf(chats) ==
  IF chats = << >> THEN << >>
  ELSE userSettings[Head(chats)].trackedCryptos \o TrackedOf(Tail(chats))

\* the cryptoId of every active alert of this.alerts.values(), in order
RECURSIVE ActiveIdsOf(_)
ActiveIdsOf(list) ==
  IF list = << >> THEN << >>
  ELSE (IF Head(list).active THEN << Head(list).cryptoId >> ELSE << >>)
       \o ActiveIdsOf(Tail(list))

RECURSIVE AlertCryptosOf(_, _)
AlertCryptosOf(amap, heap) ==
  IF amap = << >> THEN << >>
  ELSE ActiveIdsOf(heap[Head(amap).arr]) \o AlertCryptosOf(Tail(amap), heap)

\* lines 456-462: the subscribed chats configured for the interval
TargetChats(subs, interval) ==
  SelectSeq(subs, LAMBDA c : userSettings[c].updateInterval = interval)

\* variant: the assets of the alerts are left out
AllTrackedCryptos_NoAlerts(targets, amap, heap) ==
  AddAll(<< >>, TrackedOf(targets))

\* variant: an array instead of a Set
AllTrackedCryptos_Array(targets, amap, heap) ==
  TrackedOf(targets) \o AlertCryptosOf(amap, heap)

\* lines 467-479: allTrackedCryptos, in insertion order
AllTrackedCryptos(targets, amap, heap) ==
  AddAll(AddAll(<< >>, TrackedOf(targets)), AlertCryptosOf(amap, heap))

\* variant: the list ends at the first id the response lacks
RECURSIVE PriceDataOf_StopAtMissing(_, _)
PriceDataOf_StopAtMissing(ids, missing) ==
  IF ids = << >> \/ Head(ids) \in missing THEN << >>
  ELSE << [symbol |-> SymbolOf(Head(ids)),
           priceUsd |-> market[Head(ids)].priceUsd,
           priceEur |-> market[Head(ids)].priceEur,
           change24hUsd |-> market[Head(ids)].change24hUsd,
           change24hEur |-> market[Head(ids)].change24hEur] >>
       \o PriceDataOf_StopAtMissing(Tail(ids), missing)

\* getCryptoPrices, lines 97-117: one PriceData per requested id the response has
RECURSIVE PriceDataOf(_, _)
PriceDataOf(ids, missing) ==
  IF ids = << >> THEN << >>
  ELSE (IF Head(ids) \in missing THEN << >>
        ELSE << [symbol |-> SymbolOf(Head(ids)),
                 priceUsd |-> market[Head(ids)].priceUsd,
                 priceEur |-> market[Head(ids)].priceEur,
                 change24hUsd |-> market[Head(ids)].change24hUsd,
                 change24hEur |-> market[Head(ids)].change24hEur] >>)
       \o PriceDataOf(Tail(ids), missing)

\* variant: no filter
UserPricesData_All(pd, chatId) == pd

\* lines 486-493: the quotes of the chat's own tracked cryptos, by symbol
UserPricesData(pd, chatId) ==
  SelectSeq(pd, LAMBDA q :
    Includes(userSettings[chatId].trackedCryptos, findCryptoBySymbol(q.symbol)))

SymbolsOf(pd) == [n \in 1..Len(pd) |-> pd[n].symbol]

Messages(targets, pd) ==
  [j \in 1..Len(targets) |->
     [chatId |-> targets[j], content |-> SymbolsOf(UserPricesData(pd, targets[j]))]]

\* after checkPriceAlerts: build the messages and send the first one
AfterAlerts(t) ==
  [t EXCEPT !.pc = "msgSend", !.ai = 0, !.achat = 0, !.ua = 0, !.i = 0,
            !.alert = NoAlert,
            !.messages = Messages(t.targetChats, t.pricesData), !.k = 1]

\* checkPriceAlerts from the position of t to its next suspension
ContinueAl(t, amap, heap) ==
  LET r == AlScan(amap, heap, t.pricesData,
                  [status |-> "run", ai |-> t.ai, achat |-> t.achat, ua |-> t.ua,
                   i |-> t.i, alert |-> NoAlert, alog |-> << >>])
  IN CASE r.status = "await" ->
            [t EXCEPT !.pc = "alSend", !.ai = r.ai, !.achat = r.achat, !.ua = r.ua,
                      !.i = r.i, !.alert = r.alert, !.alog = r.alog]
       [] r.status = "throw" -> IdleTk      \* caught at line 505: the tick ends
       [] OTHER -> AfterAlerts([t EXCEPT !.alog = r.alog])

\* checkEmergencyAlerts from the position of t to its next suspension, and on
\* into checkPriceAlerts when it returns inside a cadence tick
ContinueEm(t, subs, recent, amap, heap) ==
  LET r == EmScan(subs, recent, t.pricesData,
                  [status |-> "run", ci |-> t.ci, chatId |-> t.chatId, cs |-> t.cs,
                   pi |-> t.pi, pend |-> NoPend, log |-> << >>])
  IN IF r.status = "await"
     THEN [t EXCEPT !.pc = "emSend", !.ci = r.ci, !.chatId = r.chatId, !.cs = r.cs,
                    !.pi = r.pi, !.pend = r.pend, !.log = r.log]
     ELSE IF t.interval = "sweep"
     THEN IdleTk
     ELSE ContinueAl([t EXCEPT !.ci = 0, !.chatId = 0, !.cs = NoSettings, !.pi = 0,
                               !.pend = NoPend, !.log = r.log], amap, heap)

\* the defaults getUserSettings gives a chat without an entry (lines 225-231)
DefaultSettings ==
  [currency |-> "usd", trackedCryptos |-> << "ethereum" >>, updateInterval |-> "1h",
   emergencyAlerts |-> TRUE, emergencyThreshold |-> 10]

\* variant: every subscribed chat is selected, whatever its cadence
SelectScan_All(subs, have, interval, st) ==
  [st EXCEPT !.status = "done", !.ci = Len(subs), !.targets = subs]

\* lines 456-462: the loop over subscribedChats from position st up to the
\* upsert getUserSettings awaits for a chat without an entry ("await") or to
\* its end ("done"); st.targets collects the chats configured for the interval
RECURSIVE SelectScan(_, _, _, _)
SelectScan(subs, have, interval, st) ==
  IF st.ci >= Len(subs) THEN [st EXCEPT !.status = "done"]
  ELSE LET c == subs[st.ci + 1]
       IN IF c \in have
          THEN SelectScan(subs, have, interval,
                 [st EXCEPT !.ci = @ + 1,
                            !.targets = IF userSettings[c].updateInterval = interval
                                        THEN Append(@, c) ELSE @])
          ELSE [st EXCEPT !.status = "await", !.ci = @ + 1, !.chatId = c]

\* lines 464-480: nothing to do without targets, else the upstream request
AfterSelect(t, targets, amap, heap) ==
  IF targets = << >> THEN IdleTk
  ELSE [IdleTk EXCEPT !.pc = "fetch", !.interval = t.interval,
                      !.targetChats = targets,
                      !.req = AllTrackedCryptos(targets, amap, heap),
                      !.attempt = 1,
                      !.firedAtStart = t.firedAtStart]

\* the selection loop from the position of t to its next suspension
ContinueSelect(t, subs, have, amap, heap) ==
  LET r == SelectScan(subs, have, t.interval,
                      [status |-> "run", ci |-> t.ci, chatId |-> 0,
                       targets |-> t.targetChats])
  IN IF r.status = "await"
     THEN [t EXCEPT !.pc = "select", !.ci = r.ci, !.chatId = r.chatId,
                    !.targetChats = r.targets]
     ELSE AfterSelect(t, r.targets, amap, heap)

\* A cadence timer fires: processPriceUpdate(interval) up to its first
\* suspension, the upsert of a chat's defaults or the upstream request
TickStart(p, interval) ==
  /\ tk[p].pc = "idle"
  /\ tk' = [tk EXCEPT ![p] =
              ContinueSelect([IdleTk EXCEPT !.interval = interval,
                                            !.firedAtStart = firedAlerts],
                             subscribedChats, known, alerts, arrs)]
  /\ UNCHANGED << botVars, envVars, histVars, nextAlertId, commands, walletVars, menuVars, gateVars, historyVars, settingsVars, settingsStore >>

\* getUserSettings of the selection loop: the upsert of the defaults settles
\* (lines 232-242); the defaults are returned either way
SelectUpsertDone(p, r) ==
  /\ tk[p].pc = "select"
  /\ LET t == tk[p]
         c == t.chatId
         have == IF r = "ok" THEN known \cup {c} ELSE known
         t1 == [t EXCEPT !.chatId = 0,
                         !.targetChats = IF DefaultSettings.updateInterval = t.interval
                                         THEN Append(@, c) ELSE @]
     IN /\ known' = have
        /\ userSettings' = IF r = "ok" THEN [userSettings EXCEPT ![c] = DefaultSettings]
                           ELSE userSettings
        /\ settingsStore' = IF r = "ok" THEN [settingsStore EXCEPT ![c] = DefaultSettings]
                            ELSE settingsStore
        /\ tk' = [tk EXCEPT ![p] = ContinueSelect(t1, subscribedChats, have, alerts, arrs)]
  /\ UNCHANGED << now, market, subscribedChats, alerts, arrs, store,
                  recentEmergencyAlerts, nextAlertId, commands, clockSteps, histVars,
                  walletVars, menuVars, gateVars, historyVars, starting >>

\* variant: the sweep asks only for what the subscribers track
SweepStart_TrackedOnly(p) ==
  /\ tk[p].pc = "idle"
  /\ tk' = [tk EXCEPT ![p] =
              [IdleTk EXCEPT !.pc = "fetch", !.interval = "sweep",
                             !.req = AllTrackedCryptos(subscribedChats, alerts, arrs),
                             !.attempt = 1,
                             !.firedAtStart = firedAlerts]]
  /\ UNCHANGED << botVars, envVars, histVars, nextAlertId, commands, walletVars, menuVars, gateVars, historyVars, settingsVars, settingsStore >>

\* The 5-minute timer fires: checkForExtremeMovements up to the upstream request
SweepStart(p) ==
  /\ tk[p].pc = "idle"
  /\ tk' = [tk EXCEPT ![p] =
              [IdleTk EXCEPT !.pc = "fetch", !.interval = "sweep",
                             !.req = [n \in 1..Len(SUPPORTED_CRYPTOS) |->
                                        SUPPORTED_CRYPTOS[n].id],
                             !.attempt = 1,
                             !.firedAtStart = firedAlerts]]
  /\ UNCHANGED << botVars, envVars, histVars, nextAlertId, commands, walletVars, menuVars, gateVars, historyVars, settingsVars, settingsStore >>

\* Math.pow(2, attempt) * 1000
Backoff(attempt) == (2 ^ attempt) * 1000

\* variant: an error that is not retried is taken for a response
makeRequestWithRetry_Swallow(attempt, resp, retryAfter) ==
  IF resp = "429" /\ attempt < MAX_RETRIES
  THEN [act |-> "retry",
        delay |-> IF retryAfter # 0 THEN retryAfter * 1000 ELSE Backoff(attempt)]
  ELSE [act |-> "return", delay |-> 0]

\* PriceService.makeRequestWithRetry: what the loop does with the answer to
\* attempt number `attempt`; retryAfter is the retry-after header in seconds,
\* 0 for none
makeRequestWithRetry(attempt, resp, retryAfter) ==
  IF resp = "ok" THEN [act |-> "return", delay |-> 0]
  ELSE IF resp = "429" /\ attempt < MAX_RETRIES
  THEN [act |-> "retry",
        delay |-> IF retryAfter # 0 THEN retryAfter * 1000 ELSE Backoff(attempt)]
  ELSE [act |-> "throw", delay |-> 0]

\* The upstream answers the batch request (makeRequestWithRetry): a response
\* with the quotes of the requested ids but those of `missing`, HTTP 429, or
\* another error.
FetchDone(p, resp, missing) ==
  /\ tk[p].pc = "fetch"
  /\ missing \subseteq Range(tk[p].req)
  /\ \/ /\ makeRequestWithRetry(tk[p].attempt, resp, 0).act = "return"
        /\ tk' = [tk EXCEPT ![p] =
                    ContinueEm([tk[p] EXCEPT
                                  !.pricesData = PriceDataOf(tk[p].req, missing)],
                               subscribedChats, recentEmergencyAlerts, alerts, arrs)]
     \/ /\ makeRequestWithRetry(tk[p].attempt, resp, 0).act = "retry" /\ missing = {}
        /\ tk' = [tk EXCEPT ![p].attempt = @ + 1, ![p].n429 = @ + 1]
     \/ /\ makeRequestWithRetry(tk[p].attempt, resp, 0).act = "throw" /\ missing = {}
        /\ tk' = [tk EXCEPT ![p] = IdleTk]
  /\ UNCHANGED << botVars, envVars, histVars, nextAlertId, commands, walletVars, menuVars, gateVars, historyVars, settingsVars, settingsStore >>

Max(a, b) == IF a >= b THEN a ELSE b

\* sendMessage of an emergency alert settles (lines 341-348), and the loops go on
EmSendDone(p, r) ==
  /\ tk[p].pc = "emSend"
  /\ LET t == tk[p]
         key == Key(t.chatId, t.pend.cryptoId, t.pend.kind)
         recent == IF r = "ok"
                   THEN [recentEmergencyAlerts EXCEPT ![key] = t.pend.now]
                   ELSE recentEmergencyAlerts
         subs == IF r = "ok" THEN subscribedChats
                 ELSE SetDelete(subscribedChats, t.chatId)
         tk1 == IF r = "ok" THEN tk
                ELSE AdjustCi(tk, SetIndex(subscribedChats, t.chatId))
     IN /\ recentEmergencyAlerts' = recent
        /\ subscribedChats' = subs
        /\ emDelivered' = IF r = "ok"
                          THEN [emDelivered EXCEPT ![key] = Max(@, t.pend.now)]
                          ELSE emDelivered
        /\ tk' = [tk1 EXCEPT ![p] = ContinueEm(tk1[p], subs, recent, alerts, arrs)]
  /\ UNCHANGED << userSettings, alerts, arrs, store, envVars, firedAlerts, stopped,
                  nextAlertId, commands, walletVars, menuVars, gateVars, historyVars, settingsVars, settingsStore >>

\* variant: the alert is removed whether or not the send succeeded
AlSendDone_RemoveAnyway(p, r) ==
  /\ tk[p].pc = "alSend"
  /\ LET t == tk[p]
         heap == [arrs EXCEPT ![t.ua] = Splice(@, t.i)]
         amap == IF Len(heap[t.ua]) = 0 THEN MapDelete(alerts, t.achat)
                 ELSE MapSet(alerts, t.achat, t.ua)
         tk1 == IF Len(heap[t.ua]) = 0
                THEN AdjustAi(tk, MapIndex(alerts, t.achat)) ELSE tk
         tk2 == [tk1 EXCEPT ![p].pc = "alDel"]
     IN /\ alerts' = amap
        /\ tk' = tk2
        /\ arrs' = Gc(heap, amap, tk2)
        /\ firedAlerts' = IF r = "ok" THEN firedAlerts \cup {t.alert.id} ELSE firedAlerts
  /\ UNCHANGED << subscribedChats, userSettings, store, recentEmergencyAlerts,
                  envVars, emDelivered, stopped, nextAlertId, commands, walletVars,
                  menuVars, gateVars, historyVars, settingsVars, settingsStore >>

\* sendMessage of a threshold alert settles (lines 392-412)
AlSendDone(p, r) ==
  /\ tk[p].pc = "alSend"
  /\ LET t == tk[p]
     IN IF r = "ok"
        THEN LET heap == [arrs EXCEPT ![t.ua] = Splice(@, t.i)]
                 amap == IF Len(heap[t.ua]) = 0 THEN MapDelete(alerts, t.achat)
                         ELSE MapSet(alerts, t.achat, t.ua)
                 tk1 == IF Len(heap[t.ua]) = 0
                        THEN AdjustAi(tk, MapIndex(alerts, t.achat)) ELSE tk
                 tk2 == [tk1 EXCEPT ![p].pc = "alDel"]
             IN /\ alerts' = amap
                /\ tk' = tk2
                /\ arrs' = Gc(heap, amap, tk2)
                /\ firedAlerts' = firedAlerts \cup {t.alert.id}
        ELSE LET tk2 == [tk EXCEPT ![p] =
                           ContinueAl([t EXCEPT !.i = @ - 1, !.alert = NoAlert],
                                      alerts, arrs)]
             IN /\ tk' = tk2
                /\ arrs' = Gc(arrs, alerts, tk2)
                /\ UNCHANGED << alerts, firedAlerts >>
  /\ UNCHANGED << subscribedChats, userSettings, store, recentEmergencyAlerts,
                  envVars, emDelivered, stopped, nextAlertId, commands, walletVars,
                  menuVars, gateVars, historyVars, settingsVars, settingsStore >>

\* AlertModel.deleteOne({chatId, type, price, cryptoId, active: true})
DeleteOne(docs, alert) ==
  LET match == {d \in docs : /\ d.chatId = alert.chatId /\ d.type = alert.type
                             /\ d.price = alert.price /\ d.cryptoId = alert.cryptoId}
  IN IF match = {} THEN docs
     ELSE docs \ {CHOOSE d \in match : \A e \in match : d.id <= e.id}

\* deleteOne of the notified alert settles (lines 403-412), and the loops go on
AlDelDone(p, r) ==
  /\ tk[p].pc = "alDel"
  /\ store' = IF r = "ok" THEN DeleteOne(store, tk[p].alert) ELSE store
  /\ LET tk2 == [tk EXCEPT ![p] =
                   ContinueAl([tk[p] EXCEPT !.i = @ - 1, !.alert = NoAlert],
                              alerts, arrs)]
     IN /\ tk' = tk2
        /\ arrs' = Gc(arrs, alerts, tk2)
  /\ UNCHANGED << subscribedChats, userSettings, alerts, recentEmergencyAlerts,
                  envVars, histVars, nextAlertId, commands, walletVars, menuVars, gateVars, historyVars, settingsVars, settingsStore >>

\* variant: the error leaves the loop
MsgSendDone_Abort(p, r) ==
  /\ tk[p].pc = "msgSend"
  /\ LET t == tk[p]
         chatId == t.messages[t.k].chatId
         subs == IF r = "ok" THEN subscribedChats ELSE SetDelete(subscribedChats, chatId)
         tk1 == IF r = "ok" THEN tk ELSE AdjustCi(tk, SetIndex(subscribedChats, chatId))
     IN /\ subscribedChats' = subs
        /\ tk' = [tk1 EXCEPT ![p] =
                    IF t.k < Len(t.messages) /\ r = "ok"
                    THEN [tk1[p] EXCEPT !.k = @ + 1]
                    ELSE IdleTk]
  /\ UNCHANGED << userSettings, alerts, arrs, store, recentEmergencyAlerts, envVars,
                  histVars, nextAlertId, commands, walletVars, menuVars, gateVars, historyVars, settingsVars, settingsStore >>

\* sendMessage of a scheduled update settles (lines 495-502)
MsgSendDone(p, r) ==
  /\ tk[p].pc = "msgSend"
  /\ LET t == tk[p]
         chatId == t.messages[t.k].chatId
         subs == IF r = "ok" THEN subscribedChats ELSE SetDelete(subscribedChats, chatId)
         tk1 == IF r = "ok" THEN tk ELSE AdjustCi(tk, SetIndex(subscribedChats, chatId))
     IN /\ subscribedChats' = subs
        /\ tk' = [tk1 EXCEPT ![p] =
                    IF t.k < Len(t.messages)
                    THEN [tk1[p] EXCEPT !.k = @ + 1,
                                        !.failed = IF r = "ok" THEN @
                                                   ELSE @ \cup {chatId}]
                    ELSE IdleTk]
  /\ UNCHANGED << userSettings, alerts, arrs, store, recentEmergencyAlerts, envVars,
                  histVars, nextAlertId, commands, walletVars, menuVars, gateVars, historyVars, settingsVars, settingsStore >>

(***************************************************************************)
(* CommandHandlers: the parts that touch the scheduler's state             *)
(***************************************************************************)
MAX_ALERTS == 5                 \* /setalert: userAlerts.length >= 5

AlertTypes == {"above", "below"}
AlertPrices == {80, 100}

\* the smallest array reference not in use: the [] of `this.alerts.get(chatId) || []`
NewArr == CHOOSE a \in ArrIds \ Referenced(alerts, tk) :
            \A b \in ArrIds \ Referenced(alerts, tk) : a <= b

\* variant: the limit is checked with > instead of >=
onSetAlert_OffByOne(chatId, cryptoId, type, price) ==
  /\ ArrIds \ Referenced(alerts, tk) # {}
  /\ LET ua == IF MapGet(alerts, chatId) = 0 THEN NewArr ELSE MapGet(alerts, chatId)
         newAlert == [id |-> nextAlertId, chatId |-> chatId, cryptoId |-> cryptoId,
                      type |-> type, price |-> price, active |-> TRUE]
     IN IF Len(arrs[ua]) > MAX_ALERTS
        THEN UNCHANGED << alerts, arrs, store, nextAlertId >>
        ELSE /\ arrs' = [arrs EXCEPT ![ua] = Append(@, newAlert)]
             /\ alerts' = MapSet(alerts, chatId, ua)
             /\ store' = store \cup {newAlert}
             /\ nextAlertId' = nextAlertId + 1
  /\ commands' = commands + 1
  /\ UNCHANGED << subscribedChats, userSettings, recentEmergencyAlerts, tk, envVars,
                  histVars, walletVars, menuVars, gateVars, historyVars, settingsVars, settingsStore >>

\* /setalert SYMBOL [above|below] PRICE
onSetAlert(chatId, cryptoId, type, price) ==
  /\ ArrIds \ Referenced(alerts, tk) # {}
  /\ LET ua == IF MapGet(alerts, chatId) = 0 THEN NewArr ELSE MapGet(alerts, chatId)
         newAlert == [id |-> nextAlertId, chatId |-> chatId, cryptoId |-> cryptoId,
                      type |-> type, price |-> price, active |-> TRUE]
     IN IF Len(arrs[ua]) >= MAX_ALERTS
        THEN UNCHANGED << alerts, arrs, store, nextAlertId >>
        ELSE /\ arrs' = [arrs EXCEPT ![ua] = Append(@, newAlert)]
             /\ alerts' = MapSet(alerts, chatId, ua)
             /\ store' = store \cup {newAlert}
             /\ nextAlertId' = nextAlertId + 1
  /\ commands' = commands + 1
  /\ UNCHANGED << subscribedChats, userSettings, recentEmergencyAlerts, tk, envVars,
                  histVars, walletVars, menuVars, gateVars, historyVars, settingsVars, settingsStore >>

\* /setalert within the budget of commands and of alert identities
SetAlert(chatId, cryptoId, type, price) ==
  /\ commands < MaxCommands
  /\ nextAlertId <= MaxAlertsCreated
  /\ onSetAlert(chatId, cryptoId, type, price)

\* /delalert N
onDelAlert(chatId, alertNumber) ==
  /\ MapGet(alerts, chatId) # 0
  /\ alertNumber \in 1..Len(arrs[MapGet(alerts, chatId)])
  /\ LET ua == MapGet(alerts, chatId)
         alertToDelete == arrs[ua][alertNumber]
         heap == [arrs EXCEPT ![ua] = Splice(@, alertNumber)]
         amap == IF Len(heap[ua]) = 0 THEN MapDelete(alerts, chatId)
                 ELSE MapSet(alerts, chatId, ua)
         tk1 == IF Len(heap[ua]) = 0 THEN AdjustAi(tk, MapIndex(alerts, chatId)) ELSE tk
     IN /\ alerts' = amap
        /\ tk' = tk1
        /\ arrs' = Gc(heap, amap, tk1)
        /\ store' = DeleteOne(store, alertToDelete)
  /\ commands' = commands + 1
  /\ UNCHANGED << subscribedChats, userSettings, recentEmergencyAlerts, envVars,
                  histVars, nextAlertId, walletVars, menuVars, gateVars, historyVars, settingsVars, settingsStore >>

\* /delalert within the budget of commands
DelAlert(chatId, alertNumber) ==
  /\ commands < MaxCommands
  /\ onDelAlert(chatId, alertNumber)

\* /clearalerts
onClearAlerts(chatId) ==
  /\ LET amap == MapDelete(alerts, chatId)
         tk1 == AdjustAi(tk, MapIndex(alerts, chatId))
     IN /\ alerts' = amap
        /\ tk' = tk1
        /\ arrs' = Gc(arrs, amap, tk1)
  /\ store' = {d \in store : d.chatId # chatId}
  /\ commands' = commands + 1
  /\ UNCHANGED << subscribedChats, userSettings, recentEmergencyAlerts, envVars,
                  histVars, nextAlertId, walletVars, menuVars, gateVars, historyVars, settingsVars, settingsStore >>

\* /clearalerts within the budget of commands
ClearAlerts(chatId) ==
  /\ commands < MaxCommands
  /\ onClearAlerts(chatId)

\* /stop
Stop(chatId) ==
  /\ commands < MaxCommands
  /\ subscribedChats' = SetDelete(subscribedChats, chatId)
  /\ LET amap == MapDelete(alerts, chatId)
         tk1 == AdjustAi(AdjustCi(tk, SetIndex(subscribedChats, chatId)),
                         MapIndex(alerts, chatId))
     IN /\ alerts' = amap
        /\ tk' = tk1
        /\ arrs' = Gc(arrs, amap, tk1)
  /\ commands' = commands + 1
  /\ stopped' = stopped \cup {chatId}
  /\ UNCHANGED << userSettings, store, recentEmergencyAlerts, envVars, firedAlerts,
                  emDelivered, nextAlertId, walletVars, menuVars, gateVars, historyVars, settingsVars, settingsStore >>

\* /start: the chat is subscribed, then getUserSettings is awaited; for a chat
\* without an entry that is the upsert of its defaults
Start(chatId) ==
  /\ commands < MaxCommands
  /\ subscribedChats' = SetAdd(subscribedChats, chatId)
  /\ commands' = commands + 1
  /\ stopped' = stopped \ {chatId}
  /\ starting' = IF chatId \in known THEN starting ELSE starting \cup {chatId}
  /\ UNCHANGED << userSettings, alerts, arrs, store, recentEmergencyAlerts, tk,
                  envVars, firedAlerts, emDelivered, nextAlertId, walletVars, menuVars,
                  gateVars, historyVars, known, settingsStore >>

\* getUserSettings of /start: the upsert of the defaults settles
StartUpsertDone(chatId, r) ==
  /\ chatId \in starting
  /\ starting' = starting \ {chatId}
  /\ known' = IF r = "ok" THEN known \cup {chatId} ELSE known
  /\ userSettings' = IF r = "ok" THEN [userSettings EXCEPT ![chatId] = DefaultSettings]
                     ELSE userSettings
  /\ settingsStore' = IF r = "ok"
                      THEN [settingsStore EXCEPT ![chatId] = DefaultSettings]
                      ELSE settingsStore
  /\ UNCHANGED << now, market, subscribedChats, alerts, arrs, store,
                  recentEmergencyAlerts, tk, nextAlertId, commands, clockSteps, histVars,
                  walletVars, menuVars, gateVars, historyVars >>

(***************************************************************************)
(* The rate-limit gates of PriceService and WalletService                  *)
(***************************************************************************)
REQUEST_DELAY == 6000
RATE_LIMIT_DELAY == 500
Gates == {"price", "wallet"}
GateCallers == {1, 2}
GateDelay(g) == IF g = "price" THEN REQUEST_DELAY ELSE RATE_LIMIT_DELAY

GateShortMs == 250
GateLongMs == 6000
MaxGateSteps == 5

IdleGc == [pc |-> "idle", g |-> "none", arrived |-> 0, wakeAt |-> 0]

\* variant: a caller that has to wait waits the whole interval
waitTime_Whole(nowMs, last, delay) ==
  IF nowMs - last < delay THEN delay ELSE 0

\* the time a caller arriving at nowMs is suspended for (0: it is not suspended)
waitTime(nowMs, last, delay) ==
  IF nowMs - last < delay THEN delay - (nowMs - last) ELSE 0

\* a caller enters the gate: it reads the clock and lastRequestTime; either it
\* is released in the same run, or it sets its timer and is suspended
rateLimitRequest(c, g) ==
  /\ gc[c].pc = "idle"
  /\ LET w == waitTime(now, lastRequestTime[g], GateDelay(g))
     IN IF w = 0
        THEN /\ lastRequestTime' = [lastRequestTime EXCEPT ![g] = now]
             /\ UNCHANGED gc
        ELSE /\ gc' = [gc EXCEPT ![c] = [pc |-> "waiting", g |-> g, arrived |-> now,
                                          wakeAt |-> now + w]]
             /\ UNCHANGED lastRequestTime
  /\ UNCHANGED << schedulerVars, walletVars, menuVars, historyVars, settingsVars, settingsStore >>

\* the timer of a suspended caller fires: lastRequestTime = Date.now(), and the
\* caller is released
GateTimer(c) ==
  /\ gc[c].pc = "waiting"
  /\ now >= gc[c].wakeAt
  /\ lastRequestTime' = [lastRequestTime EXCEPT ![gc[c].g] = now]
  /\ gc' = [gc EXCEPT ![c] = IdleGc]
  /\ UNCHANGED << schedulerVars, walletVars, menuVars, historyVars, settingsVars, settingsStore >>

\* the timers that are set
Timers == {gc[c].wakeAt : c \in {x \in GateCallers : gc[x].pc = "waiting"}}

\* time passes, up to the next timer at most
GateAdvance(d) ==
  /\ clockSteps < MaxGateSteps
  /\ \A w \in Timers : now + d <= w
  /\ clockSteps' = clockSteps + 1
  /\ now' = now + d
  /\ UNCHANGED << market, botVars, tk, histVars, nextAlertId, commands, walletVars,
                  menuVars, gateVars, historyVars, settingsVars, settingsStore >>

\* time passes until the next timer is due
GateAdvanceToTimer ==
  /\ clockSteps < MaxGateSteps
  /\ Timers # {}
  /\ \A w \in Timers : now < w
  /\ clockSteps' = clockSteps + 1
  /\ now' = CHOOSE w \in Timers : \A v \in Timers : w <= v
  /\ UNCHANGED << market, botVars, tk, histVars, nextAlertId, commands, walletVars,
                  menuVars, gateVars, historyVars, settingsVars, settingsStore >>

(***************************************************************************)
(* Tracked assets: /add, /remove and the settings-menu buttons             *)
(***************************************************************************)
MAX_TRACKED == 5

\* updateUserSettings: the in-memory settings change only after the store
\* accepted the write; a store error is logged and swallowed
updateUserSettings(chatId, tracked, r) ==
  /\ chatId \in known          \* getUserSettings finds the entry and returns it
  /\ userSettings' = IF r = "ok"
                     THEN [userSettings EXCEPT ![chatId].trackedCryptos = tracked]
                     ELSE userSettings
  /\ settingsStore' = IF r = "ok"
                      THEN [settingsStore EXCEPT ![chatId] = userSettings'[chatId]]
                      ELSE settingsStore

\* /add SYMBOL
Add(chatId, symbol, r) ==
  LET id == findCryptoBySymbol(symbol)
      tracked == userSettings[chatId].trackedCryptos
  IN /\ IF \/ id = "none"
           \/ Includes(tracked, id)
           \/ Len(tracked) >= MAX_TRACKED
        THEN UNCHANGED << userSettings, settingsStore >>
        ELSE updateUserSettings(chatId, Append(tracked, id), r)
     /\ UNCHANGED << now, market, subscribedChats, alerts, arrs, store,
                     recentEmergencyAlerts, tk, nextAlertId, commands, clockSteps,
                     histVars, walletVars, menuVars, gateVars, historyVars, settingsVars >>

\* /remove SYMBOL
Remove(chatId, symbol, r) ==
  LET id == findCryptoBySymbol(symbol)
      tracked == userSettings[chatId].trackedCryptos
  IN /\ IF id = "none" \/ ~Includes(tracked, id)
        THEN UNCHANGED << userSettings, settingsStore >>
        ELSE updateUserSettings(chatId, SelectSeq(tracked, LAMBDA x : x # id), r)
     /\ UNCHANGED << now, market, subscribedChats, alerts, arrs, store,
                     recentEmergencyAlerts, tk, nextAlertId, commands, clockSteps,
                     histVars, walletVars, menuVars, gateVars, historyVars, settingsVars >>

\* callback crypto_add_menu, offered by the crypto settings menu while fewer
\* than MAX_TRACKED assets are tracked: the message now shows one crypto_add_
\* button per asset not tracked at this moment
showAddCryptoMenu(chatId) ==
  LET tracked == userSettings[chatId].trackedCryptos
      availableCryptos == {id \in CryptoIds : ~Includes(tracked, id)}
  IN /\ addMenu[chatId] = {}
     /\ Len(tracked) < MAX_TRACKED
     /\ availableCryptos # {}
     /\ addMenu' = [addMenu EXCEPT ![chatId] = availableCryptos]
     /\ UNCHANGED << schedulerVars, walletVars, gateVars, historyVars, settingsVars, settingsStore >>

\* callback crypto_add_<id>, pressed on a displayed button; the message is
\* then redrawn as the settings menu
CryptoAddCallback(chatId, cryptoId, r) ==
  LET tracked == userSettings[chatId].trackedCryptos
  IN /\ cryptoId \in addMenu[chatId]
     /\ updateUserSettings(chatId, Append(tracked, cryptoId), r)
     /\ addMenu' = [addMenu EXCEPT ![chatId] = {}]
     /\ UNCHANGED << now, market, subscribedChats, alerts, arrs, store,
                     recentEmergencyAlerts, tk, nextAlertId, commands, clockSteps,
                     histVars, walletVars, gateVars, historyVars, settingsVars >>

\* callback crypto_remove_<id>, pressed on the crypto settings menu, which
\* shows one such button per tracked asset
CryptoRemoveCallback(chatId, cryptoId, r) ==
  LET tracked == userSettings[chatId].trackedCryptos
  IN /\ addMenu[chatId] = {}
     /\ Includes(tracked, cryptoId)
     /\ updateUserSettings(chatId, SelectSeq(tracked, LAMBDA x : x # cryptoId), r)
     /\ UNCHANGED << now, market, subscribedChats, alerts, arrs, store,
                     recentEmergencyAlerts, tk, nextAlertId, commands, clockSteps,
                     histVars, walletVars, menuVars, gateVars, historyVars, settingsVars >>

\* callback emergency_toggle_on / emergency_toggle_off of the settings menu
EmergencyToggle(chatId, newState, r) ==
  /\ chatId \in known
  /\ userSettings' = IF r = "ok"
                     THEN [userSettings EXCEPT ![chatId].emergencyAlerts = newState]
                     ELSE userSettings
  /\ settingsStore' = IF r = "ok"
                      THEN [settingsStore EXCEPT ![chatId] = userSettings'[chatId]]
                      ELSE settingsStore
  /\ UNCHANGED << now, market, subscribedChats, alerts, arrs, store,
                  recentEmergencyAlerts, tk, nextAlertId, commands, clockSteps,
                  histVars, walletVars, menuVars, gateVars, historyVars, settingsVars >>

(***************************************************************************)
(* Environment                                                             *)
(***************************************************************************)
\* time passes
Advance(d) ==
  /\ clockSteps < MaxClockSteps
  /\ clockSteps' = clockSteps + 1
  /\ now' = now + d
  /\ UNCHANGED << market, botVars, tk, histVars, nextAlertId, commands, walletVars, menuVars, gateVars, historyVars, settingsVars, settingsStore >>

\* half the retention window passes, or a short step
HalfWindowMs == FOUR_HOURS_MS \div 2

AdvancePrune(d) ==
  /\ clockSteps < MaxPruneClockSteps
  /\ clockSteps' = clockSteps + 1
  /\ now' = now + d
  /\ UNCHANGED << market, botVars, tk, histVars, nextAlertId, commands, walletVars, menuVars, gateVars, historyVars, settingsVars, settingsStore >>

\* variant: an entry goes after a short step of the clock
Expired_Early(timestamp, nowMs) == timestamp < nowMs - ShortStepMs

\* variant: an entry exactly as old as the window goes too
Expired_Inclusive(timestamp, nowMs) == timestamp <= nowMs - FOUR_HOURS_MS

\* timestamp < fourHoursAgo
Expired(timestamp, nowMs) == timestamp < nowMs - FOUR_HOURS_MS

\* The hourly cleanup callback: one synchronous pass over the entries of
\* recentEmergencyAlerts (0: no entry)
Prune ==
  /\ recentEmergencyAlerts' =
       [key \in Keys |->
          IF recentEmergencyAlerts[key] # 0 /\ Expired(recentEmergencyAlerts[key], now)
          THEN 0 ELSE recentEmergencyAlerts[key]]
  /\ UNCHANGED << now, market, subscribedChats, userSettings, alerts, arrs, store, tk,
                  nextAlertId, commands, clockSteps, histVars, walletVars, menuVars,
                  gateVars, historyVars, settingsVars, settingsStore >>

(***************************************************************************)
(* priceHistory: the quotes kept per symbol                                *)
(***************************************************************************)
HistorySymbols == {"ETH", "BTC"}

\* the responses of an update: the first symbol alone, or both
HistoryResponses == {<< "ETH" >>, << "ETH", "BTC" >>}

\* variant: slice(0, n), the oldest entries
Slice_Oldest(s, n) == IF Len(s) <= n THEN s ELSE SubSeq(s, 1, n)

\* s.slice(-n): the last n entries, in order
Slice(s, n) == IF Len(s) <= n THEN s ELSE SubSeq(s, Len(s) - n + 1, Len(s))

\* history.push(priceData); if (history.length > 50) ... history.slice(-25)
PushAndTrim(history, priceData) ==
  LET pushed == Append(history, priceData)
  IN IF Len(pushed) > HISTORY_MAX THEN Slice(pushed, HISTORY_KEEP) ELSE pushed

\* pricesData.forEach(...) over the symbols of a response; the quote of a
\* symbol is named by the number of the update that fetched it
RECURSIVE StoreAll(_, _, _)
StoreAll(hist, symbols, n) ==
  IF symbols = << >> THEN hist
  ELSE StoreAll([hist EXCEPT ![Head(symbols)] =
                   PushAndTrim(@, [symbol |-> Head(symbols), seq |-> n])],
                Tail(symbols), n)

\* processPriceUpdate from the resolved getCryptoPrices to its next await: the
\* quotes are stored.  A symbol that has been fetched is fetched from then on.
StorePriceHistory(symbols) ==
  /\ historySeq < MaxHistoryUpdates
  /\ \A sym \in HistorySymbols :
       priceHistory[sym] # << >> => sym \in Range(symbols)
  /\ historySeq' = historySeq + 1
  /\ priceHistory' = StoreAll(priceHistory, symbols, historySeq + 1)
  /\ UNCHANGED << schedulerVars, walletVars, menuVars, gateVars, settingsVars, settingsStore >>

(***************************************************************************)
(* WalletService: provider chains, and a getCryptoPrices request on its    *)
(* own                                                                     *)
(***************************************************************************)
Chains == {"ethereum", "solana"}

\* the providers of getEthereumBalanceWithRetry and the rpcEndpoints of
\* getSolanaBalanceWithRetry, in the order they are tried
Providers ==
  [ethereum |-> << "etherscan", "blockcypher", "blockchair" >>,
   solana |-> << "mainnet-beta", "projectserum", "ankr" >>]

\* answers to one attempt: a 2xx whose body passes the provider's check
\* ("ok") or not ("invalid"), an HTTP error status, or no response in time
Answers == {"ok", "invalid", "429", "430", "500", "404", "timeout"}

\* variant: no last attempt
rateLimitedRequest_Unbounded(attempt, resp) ==
  IF resp \in {"ok", "invalid"} THEN [act |-> "return", delay |-> 0]
  ELSE IF resp = "404" THEN [act |-> "throw", delay |-> 0]
  ELSE [act |-> "retry", delay |-> 1000]

\* variant: a client error is retried like a network error
rateLimitedRequest_RetryAll(attempt, resp) ==
  IF resp \in {"ok", "invalid"} THEN [act |-> "return", delay |-> 0]
  ELSE IF resp \in {"429", "430", "500"} /\ attempt < MAX_RETRIES
  THEN [act |-> "retry", delay |-> Backoff(attempt)]
  ELSE IF attempt = MAX_RETRIES THEN [act |-> "throw", delay |-> 0]
  ELSE [act |-> "retry", delay |-> 1000]

\* WalletService.rateLimitedRequest: what the loop does with the answer to
\* attempt number `attempt`
rateLimitedRequest(attempt, resp) ==
  IF resp \in {"ok", "invalid"} THEN [act |-> "return", delay |-> 0]
  ELSE IF resp \in {"429", "430", "500"} /\ attempt < MAX_RETRIES
  THEN [act |-> "retry", delay |-> Backoff(attempt)]
  ELSE IF resp = "404" THEN [act |-> "throw", delay |-> 0]
  ELSE IF attempt = MAX_RETRIES THEN [act |-> "throw", delay |-> 0]
  ELSE [act |-> "retry", delay |-> 1000]

\* getWalletBalance(address, network)
GetWalletBalance(chain) ==
  /\ rq.pc \in {"idle", "done"}
  /\ rq' = [IdleRq EXCEPT !.pc = "provider", !.kind = "wallet", !.chain = chain,
                          !.prov = 1, !.attempt = 1]
  /\ UNCHANGED << schedulerVars, menuVars, gateVars, historyVars, settingsVars, settingsStore >>

\* variant: the first provider that fails ends the resolution
AfterProvider_Stop(r, outcome) ==
  LET tried == Append(r.tried, [prov |-> r.prov, outcome |-> outcome,
                                attempts |-> r.attempt])
  IN IF outcome = "ok"
     THEN [r EXCEPT !.pc = "price", !.tried = tried, !.result = r.prov,
                    !.attempt = 1, !.delays = << >>]
     ELSE [r EXCEPT !.pc = "done", !.tried = tried, !.result = 0]

\* the try/catch blocks of a provider chain, once the request of provider
\* r.prov has ended: "ok" when the body passed the check, "invalid" when it
\* did not, "error" when rateLimitedRequest threw
AfterProvider(r, outcome) ==
  LET tried == Append(r.tried, [prov |-> r.prov, outcome |-> outcome,
                                attempts |-> r.attempt])
  IN IF outcome = "ok"
     THEN [r EXCEPT !.pc = "price", !.tried = tried, !.result = r.prov,
                    !.attempt = 1, !.delays = << >>]
     ELSE IF r.prov < Len(Providers[r.chain])
     THEN [r EXCEPT !.prov = @ + 1, !.tried = tried, !.attempt = 1, !.delays = << >>]
     ELSE [r EXCEPT !.pc = "done", !.tried = tried, !.result = 0]

\* the provider answers an attempt of the balance request
ProviderAnswer(resp) ==
  /\ rq.pc = "provider"
  /\ LET d == rateLimitedRequest(rq.attempt, resp)
     IN rq' = CASE d.act = "retry" ->
                     [rq EXCEPT !.attempt = @ + 1, !.delays = Append(@, d.delay)]
                [] d.act = "return" ->
                     AfterProvider(rq, IF resp = "ok" THEN "ok" ELSE "invalid")
                [] OTHER -> AfterProvider(rq, "error")
  /\ UNCHANGED << schedulerVars, menuVars, gateVars, historyVars, settingsVars, settingsStore >>

\* addPriceData: CoinGecko answers an attempt of the price request; a failure
\* leaves the balance with 0 prices
PriceAnswer(resp) ==
  /\ rq.pc = "price"
  /\ LET d == rateLimitedRequest(rq.attempt, resp)
     IN rq' = CASE d.act = "retry" ->
                     [rq EXCEPT !.attempt = @ + 1, !.delays = Append(@, d.delay)]
                [] OTHER ->
                     [rq EXCEPT !.pc = "done", !.priced = (resp = "ok")]
  /\ UNCHANGED << schedulerVars, menuVars, gateVars, historyVars, settingsVars, settingsStore >>

RetryAfterChoices == {0, 7}

\* PriceService.getCryptoPrices up to its request
GetCryptoPrices ==
  /\ rq.pc \in {"idle", "done"}
  /\ rq' = [IdleRq EXCEPT !.pc = "pricesReq", !.kind = "prices", !.attempt = 1]
  /\ UNCHANGED << schedulerVars, menuVars, gateVars, historyVars, settingsVars, settingsStore >>

\* CoinGecko answers an attempt of makeRequestWithRetry
PricesAnswer(resp, retryAfter) ==
  /\ rq.pc = "pricesReq"
  /\ LET d == makeRequestWithRetry(rq.attempt, resp, retryAfter)
     IN rq' = CASE d.act = "retry" ->
                     [rq EXCEPT !.attempt = @ + 1, !.delays = Append(@, d.delay)]
                [] d.act = "return" -> [rq EXCEPT !.pc = "done", !.result = 1]
                [] OTHER -> [rq EXCEPT !.pc = "done", !.result = 0]
  /\ UNCHANGED << schedulerVars, menuVars, gateVars, historyVars, settingsVars, settingsStore >>

\* a quote as CoinGecko reports it: the EUR figures follow the USD ones
Quote(priceUsd, change24hUsd) ==
  [priceUsd |-> priceUsd, priceEur |-> priceUsd - 15,
   change24hUsd |-> change24hUsd, change24hEur |-> change24hUsd - 1]

Markets ==
  [ethereum : {Quote(110, 16), Quote(90, 14), Quote(90, -22)},
   bitcoin  : {Quote(90, -22), Quote(110, 22), Quote(110, 16)},
   binancecoin : {Quote(100, 0)}, cardano : {Quote(100, 0)},
   solana   : {Quote(110, 16)}, chainlink : {Quote(100, 0)}]

Settings(currency, tracked, interval, flag, threshold) ==
  [currency |-> currency, trackedCryptos |-> tracked, updateInterval |-> interval,
   emergencyAlerts |-> flag, emergencyThreshold |-> threshold]

SettingsChoices ==
  { [c \in Chats |-> IF c = 1
                     THEN Settings("usd", << "ethereum", "bitcoin" >>, "15min", TRUE, 10)
                     ELSE s2] :
      s2 \in { Settings("usd", << "bitcoin", "solana" >>, "15min", TRUE, 25),
               Settings("eur", << "bitcoin", "solana" >>, "1h", TRUE, 10) } }

NewAlert(id, chatId, cryptoId, type, price) ==
  [id |-> id, chatId |-> chatId, cryptoId |-> cryptoId, type |-> type,
   price |-> price, active |-> TRUE]

\* the alert documents found by loadAlertsFromDatabase
StoredAlertChoices ==
  { << >>,
    << NewAlert(1, 1, "bitcoin", "below", 100), NewAlert(2, 1, "solana", "above", 100) >>,
    << NewAlert(1, 2, "bitcoin", "above", 95), NewAlert(2, 2, "bitcoin", "above", 100) >> }

\* loadAlertsFromDatabase: one array per chat, in the order of the documents
RECURSIVE LoadAlerts(_, _, _)
LoadAlerts(docs, amap, heap) ==
  IF docs = << >> THEN [amap |-> amap, heap |-> heap]
  ELSE LET d == Head(docs)
           ua == IF MapGet(amap, d.chatId) = 0
                 THEN Len(amap) + 1
                 ELSE MapGet(amap, d.chatId)
       IN LoadAlerts(Tail(docs), MapSet(amap, d.chatId, ua),
                     [heap EXCEPT ![ua] = Append(@, d)])

\* the state after initializeBot, for given upstream quotes, settings documents
\* and alert documents
InitWith(markets, settings, stored) ==
  /\ now = StartMs
  /\ clockSteps = 0
  /\ market \in markets
  /\ userSettings \in settings
  /\ subscribedChats = << 1, 2 >>
  /\ \E docs \in stored :
       LET loaded == LoadAlerts(docs, << >>, [a \in ArrIds |-> << >>])
       IN /\ alerts = loaded.amap
          /\ arrs = loaded.heap
          /\ store = Range(docs)
          /\ nextAlertId = Len(docs) + 1
  /\ recentEmergencyAlerts = [key \in Keys |-> 0]
  /\ tk = [p \in Procs |-> IdleTk]
  /\ commands = 0
  /\ firedAlerts = {}
  /\ emDelivered = [key \in Keys |-> 0]
  /\ stopped = {}
  /\ rq = IdleRq
  /\ addMenu = [c \in Chats |-> {}]
  /\ lastRequestTime = [g \in Gates |-> 0]
  /\ gc = [c \in GateCallers |-> IdleGc]
  /\ priceHistory = [s \in HistorySymbols |-> << >>]
  /\ historySeq = 0
  /\ known = Chats
  /\ starting = {}
  /\ settingsStore = userSettings

SendResults == {"ok", "unreachable", "transient"}
StoreResults == {"ok", "error"}
FetchResults == {"ok", "429", "500"}
AlertCryptoChoices == {"ethereum", "bitcoin", "solana"}   \* assets named in /setalert
MissingChoices == {{}} \cup {{id} : id \in {"ethereum", "bitcoin", "solana"}}

(***************************************************************************)
(* Spec: one timer callback at a time, every upstream and transport        *)
(* outcome, no user command.                                               *)
(***************************************************************************)
Init == InitWith(Markets, SettingsChoices, StoredAlertChoices)

Next ==
  \/ \E interval \in Intervals : TickStart(1, interval)
  \/ SweepStart(1)
  \/ \E resp \in FetchResults, missing \in MissingChoices : FetchDone(1, resp, missing)
  \/ \E r \in SendResults : EmSendDone(1, r)
  \/ \E r \in SendResults : AlSendDone(1, r)
  \/ \E r \in StoreResults : AlDelDone(1, r)
  \/ \E r \in SendResults : MsgSendDone(1, r)

Spec == Init /\ [][Next]_vars

(***************************************************************************)
(* SpecRace: two timer callbacks interleaved at their suspension points,   *)
(* the clock advancing; the upstream always answers in full and no         *)
(* threshold alert is stored.                                              *)
(***************************************************************************)
RaceMarkets ==
  [ethereum : {Quote(110, 16)}, bitcoin : {Quote(90, -22)},
   binancecoin : {Quote(100, 0)}, cardano : {Quote(100, 0)},
   solana : {Quote(110, 16)}, chainlink : {Quote(100, 0)}]

RaceSettings ==
  {s \in SettingsChoices : s[2].updateInterval = "15min"}

InitRace == InitWith(RaceMarkets, RaceSettings, {<< >>})

\* the second callback slot is taken only while the first is running
NextRace ==
  \/ \E p \in Procs : (p = 1 \/ tk[1].pc # "idle") /\ TickStart(p, "15min")
  \/ \E p \in Procs : (p = 1 \/ tk[1].pc # "idle") /\ SweepStart(p)
  \/ \E p \in Procs : FetchDone(p, "ok", {})
  \/ \E p \in Procs, r \in {"ok", "unreachable"} : EmSendDone(p, r)
  \/ \E p \in Procs : MsgSendDone(p, "ok")
  \/ \E d \in {ShortStepMs, LongStepMs} : Advance(d)

SpecRace == InitRace /\ [][NextRace]_vars

(***************************************************************************)
(* SpecAlertRace: two cadence ticks interleaved at their suspension points *)
(* over stored threshold alerts; the market is calm, so no emergency alert *)
(* is sent.                                                                *)
(***************************************************************************)
AlertRaceMarkets ==
  [ethereum : {Quote(100, 0)}, bitcoin : {Quote(110, 0), Quote(90, 0)},
   binancecoin : {Quote(100, 0)}, cardano : {Quote(100, 0)},
   solana : {Quote(110, 0)}, chainlink : {Quote(100, 0)}]

InitAlertRace ==
  InitWith(AlertRaceMarkets, SettingsChoices, StoredAlertChoices \ {<< >>})

NextAlertRace ==
  \/ \E p \in Procs, interval \in {"15min", "1h"} :
       (p = 1 \/ tk[1].pc # "idle") /\ TickStart(p, interval)
  \/ \E p \in Procs : FetchDone(p, "ok", {})
  \/ \E p \in Procs, r \in {"ok", "unreachable"} : AlSendDone(p, r)
  \/ \E p \in Procs, r \in StoreResults : AlDelDone(p, r)
  \/ \E p \in Procs : MsgSendDone(p, "ok")

SpecAlertRace == InitAlertRace /\ [][NextAlertRace]_vars

(***************************************************************************)
(* SpecCmd: one timer callback at a time with the user's commands handled  *)
(* while it is suspended.                                                  *)
(***************************************************************************)
CmdMarkets ==
  [ethereum : {Quote(110, 16), Quote(90, -22)}, bitcoin : {Quote(90, -22), Quote(110, 22)},
   binancecoin : {Quote(100, 0)}, cardano : {Quote(100, 0)},
   solana : {Quote(110, 16)}, chainlink : {Quote(100, 0)}]

InitCmd == InitWith(CmdMarkets, SettingsChoices, StoredAlertChoices)

NextCmd ==
  \/ \E interval \in {"15min", "1h"} : TickStart(1, interval)
  \/ SweepStart(1)
  \/ FetchDone(1, "ok", {})
  \/ \E r \in {"ok", "unreachable"} : EmSendDone(1, r)
  \/ \E r \in {"ok", "unreachable"} : AlSendDone(1, r)
  \/ \E r \in StoreResults : AlDelDone(1, r)
  \/ \E r \in {"ok", "unreachable"} : MsgSendDone(1, r)
  \/ \E c \in Chats, id \in AlertCryptoChoices, type \in AlertTypes, price \in AlertPrices :
       SetAlert(c, id, type, price)
  \/ \E c \in Chats, n \in 1..MAX_ALERTS : DelAlert(c, n)
  \/ \E c \in Chats : ClearAlerts(c)
  \/ \E c \in Chats : Stop(c)
  \/ \E c \in Chats : Start(c)

SpecCmd == InitCmd /\ [][NextCmd]_vars
(***************************************************************************)
(* SpecResolve: balance resolutions and price requests, one at a time,     *)
(* under every sequence of upstream answers.                               *)
(***************************************************************************)
InitResolve ==
  InitWith(RaceMarkets, {CHOOSE s \in SettingsChoices : TRUE}, {<< >>})

NextResolve ==
  \/ \E chain \in Chains : GetWalletBalance(chain)
  \/ \E resp \in Answers : ProviderAnswer(resp)
  \/ \E resp \in Answers : PriceAnswer(resp)
  \/ GetCryptoPrices
  \/ \E resp \in {"ok", "429", "500", "404", "timeout"}, h \in RetryAfterChoices :
       PricesAnswer(resp, h)

SpecResolve == InitResolve /\ [][NextResolve]_vars

(***************************************************************************)
(* SpecTrack: one chat edits its tracked assets with /add, /remove and the *)
(* settings-menu buttons, in any order.                                    *)
(***************************************************************************)
TrackChats == {1}
TrackSymbols == {SUPPORTED_CRYPTOS[n].symbol : n \in 1..Len(SUPPORTED_CRYPTOS)} \cup {"XRP"}

InitTrack ==
  InitWith(RaceMarkets, {CHOOSE s \in SettingsChoices : TRUE}, {<< >>})

NextTrack ==
  \/ \E c \in TrackChats, symbol \in TrackSymbols, r \in StoreResults : Add(c, symbol, r)
  \/ \E c \in TrackChats, symbol \in TrackSymbols, r \in StoreResults : Remove(c, symbol, r)
  \/ \E c \in TrackChats : showAddCryptoMenu(c)
  \/ \E c \in TrackChats, id \in CryptoIds, r \in StoreResults : CryptoAddCallback(c, id, r)
  \/ \E c \in TrackChats, id \in CryptoIds, r \in StoreResults : CryptoRemoveCallback(c, id, r)

SpecTrack == InitTrack /\ [][NextTrack]_vars

(***************************************************************************)
(* SpecGate: callers enter the two rate-limit gates while time passes.     *)
(***************************************************************************)
InitGate ==
  InitWith(RaceMarkets, {CHOOSE s \in SettingsChoices : TRUE}, {<< >>})

NextGate ==
  \/ \E c \in GateCallers, g \in Gates : rateLimitRequest(c, g)
  \/ \E c \in GateCallers : GateTimer(c)
  \/ \E d \in {GateShortMs, GateLongMs} : GateAdvance(d)
  \/ GateAdvanceToTimer

SpecGate == InitGate /\ [][NextGate]_vars

(***************************************************************************)
(* SpecSettings: one timer callback at a time, with the subscriber's       *)
(* settings changed from the menu or by /remove while it is suspended.     *)
(***************************************************************************)
InitSettings == InitWith(CmdMarkets, SettingsChoices, {<< >>})

NextSettings ==
  \/ \E interval \in {"15min", "1h"} : TickStart(1, interval)
  \/ SweepStart(1)
  \/ FetchDone(1, "ok", {})
  \/ \E r \in {"ok", "unreachable"} : EmSendDone(1, r)
  \/ MsgSendDone(1, "ok")
  \/ \E c \in Chats, newState \in BOOLEAN, r \in StoreResults : EmergencyToggle(c, newState, r)
  \/ \E c \in Chats, symbol \in {"ETH", "BTC"}, r \in StoreResults : Remove(c, symbol, r)

SpecSettings == InitSettings /\ [][NextSettings]_vars

(***************************************************************************)
(* SpecPrune: sweeps whose sends succeed, the clock advancing by seconds   *)
(* and by half retention windows, and the hourly cleanup.                  *)
(***************************************************************************)
InitPrune == InitWith(RaceMarkets, RaceSettings, {<< >>})

NextPrune ==
  \/ SweepStart(1)
  \/ FetchDone(1, "ok", {})
  \/ EmSendDone(1, "ok")
  \/ \E d \in {ShortStepMs, HalfWindowMs} : AdvancePrune(d)
  \/ Prune

SpecPrune == InitPrune /\ [][NextPrune]_vars

(***************************************************************************)
(* SpecHistory: price updates storing their quotes, from the empty map.    *)
(***************************************************************************)
InitHistory == InitWith(RaceMarkets, RaceSettings, {<< >>})

NextHistory == \E symbols \in HistoryResponses : StorePriceHistory(symbols)

SpecHistory == InitHistory /\ [][NextHistory]_vars

(***************************************************************************)
(* SpecDefaults: chats without a settings entry.  Either the settings were *)
(* loaded and chat 2 has no document yet, or loadUserSettingsFromDatabase  *)
(* failed and nothing is in memory.  /start commands arrive while no tick  *)
(* is past its selection loop, and the store accepts the tick's upserts.   *)
(***************************************************************************)
StoredSettings ==
  [c \in Chats |-> IF c = 1
                   THEN Settings("usd", << "ethereum", "bitcoin" >>, "15min", TRUE, 10)
                   ELSE Settings("eur", << "bitcoin", "solana" >>, "1h", TRUE, 10)]

InitDefaults ==
  /\ now = StartMs
  /\ clockSteps = 0
  /\ market \in RaceMarkets
  /\ \/ /\ subscribedChats = << 1 >>                 \* loaded; no document of chat 2
        /\ known = {1}
        /\ userSettings = [StoredSettings EXCEPT ![2] = DefaultSettings]
        /\ settingsStore = [StoredSettings EXCEPT ![2] = NoSettings]
     \/ /\ subscribedChats = << >>                    \* the load failed
        /\ known = {}
        /\ userSettings = [c \in Chats |-> DefaultSettings]
        /\ settingsStore = StoredSettings
  /\ alerts = << >>
  /\ arrs = [a \in ArrIds |-> << >>]
  /\ store = {}
  /\ nextAlertId = 1
  /\ recentEmergencyAlerts = [key \in Keys |-> 0]
  /\ tk = [p \in Procs |-> IdleTk]
  /\ commands = 0
  /\ firedAlerts = {}
  /\ emDelivered = [key \in Keys |-> 0]
  /\ stopped = {}
  /\ rq = IdleRq
  /\ addMenu = [c \in Chats |-> {}]
  /\ lastRequestTime = [g \in Gates |-> 0]
  /\ gc = [c \in GateCallers |-> IdleGc]
  /\ priceHistory = [s \in HistorySymbols |-> << >>]
  /\ historySeq = 0
  /\ starting = {}

NextDefaults ==
  \/ \E c \in Chats : tk[1].pc \in {"idle", "select"} /\ Start(c)
  \/ \E c \in Chats, r \in StoreResults : StartUpsertDone(c, r)
  \/ \E interval \in {"15min", "1h"} : TickStart(1, interval)
  \/ SelectUpsertDone(1, "ok")
  \/ FetchDone(1, "ok", {})
  \/ EmSendDone(1, "ok")
  \/ MsgSendDone(1, "ok")

SpecDefaults == InitDefaults /\ [][NextDefaults]_vars

(***************************************************************************)
(* SpecLimit: one chat sets, deletes and clears alerts on one asset while  *)
(* 15-minute ticks consume them; the market is calm.                       *)
(***************************************************************************)
InitLimit ==
  InitWith(AlertRaceMarkets, {CHOOSE s \in SettingsChoices : TRUE}, {<< >>})

NextLimit ==
  \/ TickStart(1, "15min")
  \/ FetchDone(1, "ok", {})
  \/ AlSendDone(1, "ok")
  \/ AlDelDone(1, "ok")
  \/ MsgSendDone(1, "ok")
  \/ /\ commands < MaxLimitCommands
     /\ nextAlertId <= MaxLimitAlerts
     /\ onSetAlert(1, "bitcoin", "above", 100)
  \/ \E n \in 1..MAX_ALERTS : commands < MaxLimitCommands /\ onDelAlert(1, n)
  \/ commands < MaxLimitCommands /\ onClearAlerts(1)

SpecLimit == InitLimit /\ [][NextLimit]_vars

(***************************************************************************)
(* Properties                                                              *)
(***************************************************************************)
LogEntries == UNION {Range(tk[p].log) : p \in Procs}

NoDuplicates(s) == \A m, n \in 1..Len(s) : s[m] = s[n] => m = n

\* C1 as stated: a threshold alert whose notification was delivered before a
\* tick began is not notified by that tick or by any later one.
C1_Stated ==
  \A p \in Procs :
    tk[p].pc = "alSend" => tk[p].alert.id \notin tk[p].firedAtStart

\* C2 as stated: an evaluation made less than one hour after the latest
\* delivered notification of its (subscriber, asset, kind) key sends nothing.
C2_Stated ==
  \A p \in Procs :
    tk[p].pc = "emSend" =>
      \/ tk[p].pend.seen = 0
      \/ tk[p].pend.now - tk[p].pend.seen >= DEDUP_WINDOW_MS

\* C3: when the send of a scheduled update to one selected subscriber fails,
\* that subscriber is removed from the subscribed set, and the tick goes on to
\* send the next selected subscriber's message; the messages of a tick are
\* those of its selected subscribers, one each, in order.
C3_FailureDoesNotStopTick ==
  [][\A p \in Procs, r \in SendResults \ {"ok"} :
       MsgSendDone(p, r) =>
         LET t == tk[p]
         IN /\ [j \in 1..Len(t.messages) |-> t.messages[j].chatId] = t.targetChats
            /\ ~Includes(subscribedChats', t.messages[t.k].chatId)
            /\ t.k < Len(t.messages) =>
                 /\ tk'[p].pc = "msgSend"
                 /\ tk'[p].k = t.k + 1
                 /\ tk'[p].messages = t.messages]_vars

\* a tick is sending to a later subscriber after a send of the same tick failed
C3_Witness ==
  \E p \in Procs : /\ tk[p].pc = "msgSend"
                   /\ tk[p].failed # {}
                   /\ tk[p].messages[tk[p].k].chatId \notin tk[p].failed

\* C4: a balance resolution tries the providers of its chain in their fixed
\* order; a provider whose request fails, after its retries or at once, or
\* whose answer does not pass the check is followed by the next provider; the
\* resolution returns the balance of the first provider that succeeds, and
\* returns nothing only when every provider of the chain has failed.
C4_ProviderFallthrough ==
  rq.kind = "wallet" =>
    LET n == Len(rq.tried)
    IN /\ \A j \in 1..n : rq.tried[j].prov = j
       /\ \A j \in 1..n : rq.tried[j].outcome = "ok" => j = n /\ rq.result = j
       /\ rq.pc = "provider" => rq.prov = n + 1 /\ rq.result = 0
       /\ rq.pc \in {"price", "done"} /\ rq.result # 0 =>
            rq.result = n /\ rq.tried[n].outcome = "ok"
       /\ rq.pc = "done" /\ rq.result = 0 =>
            /\ n = Len(Providers[rq.chain])
            /\ \A j \in 1..n : rq.tried[j].outcome # "ok"

\* the first provider used up its attempts and the second one gave the balance
C4_Witness ==
  /\ rq.kind = "wallet" /\ rq.pc = "done" /\ rq.result = 2
  /\ rq.tried[1].outcome = "error" /\ rq.tried[1].attempts = MAX_RETRIES

\* C5 as stated: a rate-limit (429) or server-error (5xx) answer to an attempt
\* below the bound of 3 is followed by another attempt of the same request,
\* after a delay of 2^attempt seconds when the answer carries no retry-after.
C5_Stated ==
  [][\A resp \in {"429", "500"} :
       /\ ProviderAnswer(resp) \/ PriceAnswer(resp) \/ PricesAnswer(resp, 0)
       /\ rq.attempt < MAX_RETRIES
       => /\ rq'.pc = rq.pc
          /\ rq'.attempt = rq.attempt + 1
          /\ rq'.delays = Append(rq.delays, Backoff(rq.attempt))]_vars

\* C6: the assets a cadence tick requests include every tracked asset of every
\* selected subscriber and the asset of every active threshold alert.
C6_FetchCoversTrackedAndAlerts ==
  \A p \in Procs :
    tk[p].pc = "fetch" /\ tk[p].interval # "sweep" =>
      /\ tk[p].targetChats = TargetChats(subscribedChats, tk[p].interval)
      /\ \A c \in Range(tk[p].targetChats) :
           Range(userSettings[c].trackedCryptos) \subseteq Range(tk[p].req)
      /\ \A n \in 1..Len(alerts) : \A a \in Range(arrs[alerts[n].arr]) :
           a.active => a.cryptoId \in Range(tk[p].req)

\* a tick requests an asset that only an active alert asks for
C6_Witness ==
  \E p \in Procs :
    /\ tk[p].pc = "fetch" /\ tk[p].interval # "sweep"
    /\ \E n \in 1..Len(alerts) : \E a \in Range(arrs[alerts[n].arr]) :
         /\ a.active
         /\ a.cryptoId \in Range(tk[p].req)
         /\ a.cryptoId \notin Range(TrackedOf(tk[p].targetChats))

\* C7 as stated: in one cadence tick no asset is requested from the upstream a
\* second time.
C7_Stated ==
  \A p \in Procs : tk[p].pc = "fetch" => NoDuplicates(tk[p].req) /\ tk[p].attempt = 1

\* C7: a cadence tick makes one batch request in which each asset appears once,
\* however many selected subscribers track it; the same request is made again
\* only after an HTTP 429 answer, and at most MAX_RETRIES times in all.
C7_OncePerRequest ==
  \A p \in Procs :
    tk[p].pc = "fetch" =>
      /\ NoDuplicates(tk[p].req)
      /\ tk[p].attempt = 1 + tk[p].n429
      /\ tk[p].attempt <= MAX_RETRIES

\* two selected subscribers track the same asset and the tick requests it
C7_Witness ==
  \E p \in Procs :
    /\ tk[p].pc = "fetch" /\ Len(tk[p].targetChats) = 2
    /\ \E id \in Range(tk[p].req) :
         \A c \in Range(tk[p].targetChats) : Includes(userSettings[c].trackedCryptos, id)

\* C8: the scheduled message of a subscriber holds quotes of that subscriber's
\* own tracked assets only.
C8_OwnAssetsOnly ==
  \A p \in Procs :
    tk[p].pc = "msgSend" =>
      \A j \in 1..Len(tk[p].messages) :
        \A sym \in Range(tk[p].messages[j].content) :
          Includes(userSettings[tk[p].messages[j].chatId].trackedCryptos,
                   findCryptoBySymbol(sym))

\* a message is being sent while the tick holds a quote its recipient does not track
C8_Witness ==
  \E p \in Procs :
    /\ tk[p].pc = "msgSend"
    /\ tk[p].messages[tk[p].k].content # << >>
    /\ \E q \in Range(tk[p].pricesData) :
         q.symbol \notin Range(tk[p].messages[tk[p].k].content)

\* C9: an evaluation of a subscriber's tracked asset is classified as a pump
\* exactly when the 24-hour change is at least 1.5 times the subscriber's
\* threshold, and a pump gives an intent unless its key is inside the
\* deduplication window.
C9_PumpAtOneAndAHalf ==
  \A e \in LogEntries :
    /\ e.kind = "PUMP" <=> 2 * e.change >= 3 * e.threshold
    /\ e.kind = "PUMP" => e.verdict \in {"send", "suppressed"}
    /\ e.kind = "none" <=> e.verdict = "none"

\* with threshold 10, +14% gave nothing and +16% a pump intent in one pass
C9_Witness ==
  \E p \in Procs : \E e1, e2 \in Range(tk[p].log) :
    /\ e1.threshold = 10 /\ e1.change = 14 /\ e1.kind = "none"
    /\ e2.threshold = 10 /\ e2.change = 16 /\ e2.kind = "PUMP" /\ e2.verdict = "send"
    /\ tk[p].pc = "emSend" /\ tk[p].pend.kind = "PUMP"

C11_Stated ==
  [][\A key \in Keys :
       recentEmergencyAlerts[key] # 0 /\ recentEmergencyAlerts'[key] # 0 =>
         recentEmergencyAlerts'[key] >= recentEmergencyAlerts[key]]_vars

AlertLogEntries == UNION {Range(tk[p].alog) : p \in Procs}

\* the price the upstream reports for an asset in the fiat currency of a chat
OwnerPrice(cryptoId, chatId) ==
  IF userSettings[chatId].currency = "usd"
  THEN market[cryptoId].priceUsd ELSE market[cryptoId].priceEur

\* C12: an evaluation of an active threshold alert triggers exactly when the
\* tick holds a quote of the alert's asset and the price of that quote in the
\* owner's fiat currency is at or above the trigger price of an "above" alert or
\* at or below the trigger price of a "below" alert.
C12_TriggerCondition ==
  \A e \in AlertLogEntries :
    /\ e.present => e.currentPrice = OwnerPrice(e.alert.cryptoId, e.owner)
    /\ e.verdict = "trigger" <=>
         /\ e.present
         /\ \/ e.alert.type = "above" /\ e.currentPrice >= e.alert.price
            \/ e.alert.type = "below" /\ e.currentPrice <= e.alert.price

\* in one pass an owner with prices in EUR had an "above" alert skipped, the
\* EUR price being under its trigger price and the USD price over it, and
\* another triggered with the EUR price equal to its trigger price
C12_Witness ==
  \E p \in Procs : \E e1, e2 \in Range(tk[p].alog) :
    /\ tk[p].pc = "alSend"
    /\ userSettings[e1.owner].currency = "eur" /\ e1.owner = e2.owner
    /\ e1.verdict = "skip" /\ e1.present /\ e1.alert.type = "above"
    /\ market[e1.alert.cryptoId].priceUsd >= e1.alert.price
    /\ e2.verdict = "trigger" /\ e2.currentPrice = e2.alert.price

\* C13: a subscriber tracks at most 5 cryptocurrencies at any time, whatever
\* sequence of /add, /remove and settings-menu add/remove callbacks was handled.
C13_Stated ==
  \A c \in Chats : Len(userSettings[c].trackedCryptos) <= MAX_TRACKED

\* the chat a callback's awaited sendMessage is addressed to
SendPcs == {"emSend", "alSend", "msgSend"}
SendTarget(t) ==
  CASE t.pc = "emSend" -> t.chatId
    [] t.pc = "alSend" -> t.achat
    [] t.pc = "msgSend" -> t.messages[t.k].chatId
    [] OTHER -> 0

\* callback p issues a sendMessage in this step
IssuesSend(p) ==
  /\ tk'[p].pc \in SendPcs
  /\ << tk'[p].pc, tk'[p].chatId, tk'[p].pend, tk'[p].achat, tk'[p].alert, tk'[p].k >>
       # << tk[p].pc, tk[p].chatId, tk[p].pend, tk[p].achat, tk[p].alert, tk[p].k >>

\* C14: once a chat's /stop has been handled, no scheduled price update,
\* emergency alert or threshold alert is sent to that chat until its next /start.
C14_Stated ==
  [][\A p \in Procs : IssuesSend(p) => SendTarget(tk'[p]) \notin stopped]_vars

\* C15: no failure inside a cadence tick or an emergency sweep (upstream fetch
\* error, per-subscriber evaluation error, delivery error) leaves the tick
\* handler or ends the process; later ticks still run, and one subscriber's
\* failure does not stop the notification of the others: a cadence tick that
\* obtained its prices ends only with the send to its last selected subscriber.
C15_Stated ==
  [][\A p \in Procs :
       /\ tk[p].pc \notin {"idle", "fetch"}
       /\ tk[p].interval # "sweep"
       /\ tk'[p].pc = "idle"
       => /\ tk[p].pc = "msgSend"
          /\ tk[p].k = Len(tk[p].messages)
          /\ [j \in 1..Len(tk[p].messages) |-> tk[p].messages[j].chatId]
               = tk[p].targetChats]_vars

\* C16: the removal of a triggered threshold alert from the in-memory working
\* set is applied before the evaluation yields control, so a second tick
\* interleaved with the first cannot trigger the same alert again: no tick
\* awaits the notification of an alert that another tick is notifying or has
\* notified.
C16_Stated ==
  \A p \in Procs :
    tk[p].pc = "alSend" =>
      /\ tk[p].alert.id \notin firedAlerts
      /\ \A q \in Procs \ {p} :
           tk[q].pc \in {"alSend", "alDel"} => tk[q].alert.id # tk[p].alert.id

\* C17: when the sweep and a cadence tick, or two cadence ticks, evaluate the
\* same (subscriber, asset, kind) condition while interleaved, the dedup window
\* collapses the duplicates: a notification is delivered for a key only if no
\* notification of that key evaluated less than one hour earlier or later has
\* been delivered.
C17_Stated ==
  [][\A p \in Procs :
       EmSendDone(p, "ok") =>
         LET key == Key(tk[p].chatId, tk[p].pend.cryptoId, tk[p].pend.kind)
             d == tk[p].pend.now - emDelivered[key]
         IN \/ emDelivered[key] = 0
            \/ d >= DEDUP_WINDOW_MS
            \/ 0 - d >= DEDUP_WINDOW_MS]_vars

\* caller c is released by gate g in this step, at the time `now`
Released(c, g) ==
  \/ rateLimitRequest(c, g) /\ gc'[c].pc = "idle"
  \/ GateTimer(c) /\ gc[c].g = g

\* C18: the rate-limit clock is consulted and updated atomically: whatever the
\* interleaving of the callers of one gate, no two upstream calls are released
\* less than the gate's minimum interval apart.
C18_Stated ==
  [][\A c \in GateCallers, g \in Gates :
       Released(c, g) => now - lastRequestTime[g] >= GateDelay(g)]_vars

\* C19: before issuing a call the gate suspends for exactly
\* max(0, minInterval - (now - lastCall)): a caller arriving at least
\* minInterval after the last call is released at once, an earlier one is
\* suspended for the remaining difference, and the last-call timestamp is set
\* to the time at which the caller is released.
C19_GateWait ==
  [][\A c \in GateCallers, g \in Gates :
       /\ rateLimitRequest(c, g) =>
            LET wait == Max(0, GateDelay(g) - (now - lastRequestTime[g]))
            IN IF wait = 0
               THEN gc'[c].pc = "idle" /\ lastRequestTime'[g] = now
               ELSE /\ gc'[c] = [pc |-> "waiting", g |-> g, arrived |-> now,
                                 wakeAt |-> now + wait]
                    /\ lastRequestTime' = lastRequestTime
       /\ GateTimer(c) /\ gc[c].g = g =>
            /\ now = gc[c].wakeAt
            /\ lastRequestTime'[g] = now
            /\ gc'[c].pc = "idle"]_vars

\* a caller that arrived at the wallet gate some time after its last call, but
\* less than the minimum interval after it, has been suspended for the
\* remaining difference and is being released
C19_Witness ==
  \E c \in GateCallers :
    /\ gc[c].pc = "waiting"
    /\ gc[c].g = "wallet"
    /\ gc[c].wakeAt = now
    /\ gc[c].arrived > lastRequestTime["wallet"]
    /\ now - lastRequestTime["wallet"] = RATE_LIMIT_DELAY

\* C20: threshold alerts are checked regardless of the owner's display cadence:
\* on every cadence tick every active threshold alert of any subscriber has its
\* asset fetched and is evaluated.  So, while an alert is held, the timer of
\* every cadence starts a tick that requests prices: it is not a step that
\* leaves the bot as it was.
C20_Stated ==
  \A interval \in Intervals :
    tk[1].pc = "idle" /\ alerts # << >> => ENABLED << TickStart(1, interval) >>_vars

C22_Stated ==
  [][\A p \in Procs :
       IssuesSend(p) /\ tk'[p].pc = "emSend" =>
         /\ userSettings'[tk'[p].chatId].emergencyAlerts
         /\ Includes(userSettings'[tk'[p].chatId].trackedCryptos, tk'[p].pend.cryptoId)]_vars

\* C23: the scheduler removes a subscriber from the active set only on a
\* recipient-unreachable delivery failure; after a transient delivery failure
\* of a scheduled update or of an emergency alert the recipient stays subscribed.
C23_Stated ==
  [][\A p \in Procs :
       MsgSendDone(p, "transient") \/ EmSendDone(p, "transient") =>
         subscribedChats' = subscribedChats]_vars

\* C24: on a client error that is not a rate-limit status (HTTP 404) the
\* request fails at once: the attempt that got the answer is the last one of
\* the request and no delay is taken; a balance request goes to the next
\* provider or ends, a price request ends without a price.
C24_ClientErrorFailsAtOnce ==
  [][/\ ProviderAnswer("404") =>
          LET last == rq'.tried[Len(rq'.tried)]
          IN /\ Len(rq'.tried) = Len(rq.tried) + 1
             /\ last = [prov |-> rq.prov, outcome |-> "error", attempts |-> rq.attempt]
             /\ \/ /\ rq'.pc = "done" /\ rq'.result = 0
                   /\ rq'.attempt = rq.attempt /\ rq'.delays = rq.delays
                \/ /\ rq'.pc = "provider" /\ rq'.prov = rq.prov + 1
                   /\ rq'.attempt = 1 /\ rq'.delays = << >>
     /\ PriceAnswer("404") =>
          /\ rq'.pc = "done" /\ ~rq'.priced
          /\ rq'.attempt = rq.attempt /\ rq'.delays = rq.delays
     /\ \A h \in RetryAfterChoices :
          PricesAnswer("404", h) =>
            /\ rq'.pc = "done" /\ rq'.result = 0
            /\ rq'.attempt = rq.attempt /\ rq'.delays = rq.delays]_vars

\* the first provider answered its first attempt with a client error and the
\* second provider is being asked
C24_Witness ==
  /\ rq.kind = "wallet" /\ rq.pc = "provider" /\ rq.prov = 2
  /\ rq.tried = << [prov |-> 1, outcome |-> "error", attempts |-> 1] >>

\* C25: when a rate-limited (429) answer carries a retry-after hint, the delay
\* before the next attempt is the hinted value and not the computed backoff,
\* for the batch price request and for the requests of the balance providers.
C25_Stated ==
  [][\A h \in RetryAfterChoices \ {0} :
       /\ rq.attempt < MAX_RETRIES
       /\ PricesAnswer("429", h) \/ ProviderAnswer("429") \/ PriceAnswer("429")
       => rq'.delays = Append(rq.delays, h * 1000)]_vars

\* C26: a timed-out attempt of an upstream call is a retryable failure: below
\* the attempt bound it is followed by another attempt of the same request
\* instead of failing the request.
C26_Stated ==
  [][/\ rq.attempt < MAX_RETRIES
     /\ \/ ProviderAnswer("timeout")
        \/ PriceAnswer("timeout")
        \/ \E h \in RetryAfterChoices : PricesAnswer("timeout", h)
     => /\ rq'.pc = rq.pc
        /\ rq'.attempt = rq.attempt + 1]_vars


\* the alerts of a chat's in-memory list, by id
OwnerIds(amap, heap, chatId) ==
  IF MapGet(amap, chatId) = 0 THEN {}
  ELSE {heap[MapGet(amap, chatId)][j].id : j \in 1..Len(heap[MapGet(amap, chatId)])}

\* C27 as stated: when the notification of a triggered threshold alert has been
\* sent, the entry removed from the owner's in-memory list is exactly the
\* notified alert and no other, also when the owner's commands ran during the
\* send.
C27_Stated ==
  [][\A p \in Procs :
       AlSendDone(p, "ok") =>
         OwnerIds(alerts', arrs', tk[p].achat)
           = OwnerIds(alerts, arrs, tk[p].achat) \ {tk[p].alert.id}]_vars


\* the quote q of an enabled chat with settings st is due for an emergency
\* notification: tracked, one of the three conditions met, not suppressed
EmDue(chatId, st, q, recent) ==
  LET crypto == findCryptoBySymbol(q.symbol)
      kind == EmergencyKind(Change24h(q, st), st.emergencyThreshold)
  IN /\ st.emergencyAlerts
     /\ crypto # "none" /\ Includes(st.trackedCryptos, crypto)
     /\ kind # "none"
     /\ ~Suppressed(recent, Key(chatId, crypto, kind), now)

\* the due (chat, quote) pairs that lie after quote `from` of chat `cur` (0: no
\* running chat) and in the chats `rest`; n = 0 stands for the running chat
DuePairs(cur, curSettings, from, rest, pd, recent) ==
  {<< 0, m >> : m \in {k \in (from + 1)..Len(pd) :
                         cur # 0 /\ EmDue(cur, curSettings, pd[k], recent)}}
  \cup {nm \in (1..Len(rest)) \X (1..Len(pd)) :
          EmDue(rest[nm[1]], userSettings[rest[nm[1]]], pd[nm[2]], recent)}

FirstPair(pairs) ==
  CHOOSE a \in pairs :
    \A b \in pairs : a[1] < b[1] \/ (a[1] = b[1] /\ a[2] <= b[2])

\* the position a sweep is left in: idle when nothing is due, else awaiting the
\* send of the first due pair
SweepGoesTo(t, cur, rest, pd, pairs) ==
  IF pairs = {}
  THEN t = IdleTk
  ELSE LET a == FirstPair(pairs)
           c == IF a[1] = 0 THEN cur ELSE rest[a[1]]
       IN /\ t.pc = "emSend" /\ t.interval = "sweep"
          /\ t.chatId = c
          /\ t.pend.cryptoId = findCryptoBySymbol(pd[a[2]].symbol)

\* C28: a sweep requests the quotes of the whole catalog; it evaluates the
\* emergency conditions of every subscriber whose flag is enabled, in the order
\* of the subscribed set and whatever the subscriber's cadence, so that after
\* each of its steps it awaits the send of the first evaluation that is due, or
\* has ended when none is; it never evaluates or changes threshold alerts.
C28_SweepCoversCatalogAndSubscribers ==
  [][\A p \in Procs :
       /\ SweepStart(p) => Range(tk'[p].req) = CryptoIds
       /\ \A missing \in MissingChoices :
            tk[p].interval = "sweep" /\ FetchDone(p, "ok", missing) =>
              LET pd == PriceDataOf(tk[p].req, missing)
              IN SweepGoesTo(tk'[p], 0, subscribedChats, pd,
                             DuePairs(0, NoSettings, 0, subscribedChats, pd,
                                      recentEmergencyAlerts))
       /\ \A r \in SendResults :
            tk[p].interval = "sweep" /\ EmSendDone(p, r) =>
              LET t == tk[p]
                  rest == SubSeq(subscribedChats, t.ci + 1, Len(subscribedChats))
              IN SweepGoesTo(tk'[p], t.chatId, rest, t.pricesData,
                             DuePairs(t.chatId, t.cs, t.pi, rest, t.pricesData,
                                      recentEmergencyAlerts'))
       /\ tk[p].interval = "sweep" =>
            /\ tk'[p].pc \in {"idle", "fetch", "emSend"}
            /\ tk'[p].alog = << >>
            /\ UNCHANGED << alerts, arrs, store, firedAlerts >>]_vars

\* a sweep awaits the emergency send of the second subscriber, whose cadence is
\* not the first one's, while a stored threshold alert is met by the quotes
C28_Witness ==
  /\ tk[1].interval = "sweep" /\ tk[1].pc = "emSend"
  /\ Len(subscribedChats) = 2 /\ tk[1].chatId = subscribedChats[2]
  /\ userSettings[subscribedChats[1]].updateInterval
       # userSettings[subscribedChats[2]].updateInterval
  /\ \E n \in 1..Len(alerts) : \E j \in 1..Len(arrs[alerts[n].arr]) :
       LET a == arrs[alerts[n].arr][j]
       IN ShouldTrigger(a, market[a.cryptoId].priceUsd)


\* C29: the cleanup deletes exactly the entries of the emergency alert state
\* whose timestamp lies more than four hours back, keeps every other entry as
\* it is, and changes nothing else.
C29_PruneDeletesExactlyTheOld ==
  [][Prune =>
       /\ \A key \in Keys :
            recentEmergencyAlerts'[key] =
              IF recentEmergencyAlerts[key] # 0
                 /\ now - recentEmergencyAlerts[key] > FOUR_HOURS_MS
              THEN 0 ELSE recentEmergencyAlerts[key]
       /\ UNCHANGED << now, market, subscribedChats, userSettings, alerts, arrs, store,
                       tk, nextAlertId, commands, clockSteps, firedAlerts, emDelivered,
                       stopped, rq, addMenu, lastRequestTime, gc, priceHistory, historySeq, known, starting, settingsStore >>]_vars

\* the cleanup is about to run over an entry older than the window, an entry
\* exactly as old as the window and a younger one
C29_Witness ==
  /\ \E key \in Keys : /\ recentEmergencyAlerts[key] # 0
                       /\ now - recentEmergencyAlerts[key] > FOUR_HOURS_MS
  /\ \E key \in Keys : /\ recentEmergencyAlerts[key] # 0
                       /\ now - recentEmergencyAlerts[key] = FOUR_HOURS_MS
  /\ \E key \in Keys : /\ recentEmergencyAlerts[key] # 0
                       /\ now - recentEmergencyAlerts[key] < FOUR_HOURS_MS
  /\ tk[1].pc = "idle"


\* C30: after every update the history of a symbol holds at most 50 quotes;
\* an append that takes it above 50 leaves the 25 most recent quotes, the new
\* one last, in their order; any other append leaves the old quotes followed by
\* the new one.
C30_HistoryBounded ==
  [][\A symbols \in HistoryResponses :
       StorePriceHistory(symbols) =>
         \A sym \in HistorySymbols :
           LET old == priceHistory[sym]
               new == priceHistory'[sym]
               quote == [symbol |-> sym, seq |-> historySeq']
           IN /\ Len(new) <= HISTORY_MAX
              /\ sym \notin Range(symbols) => new = old
              /\ sym \in Range(symbols) /\ Len(old) < HISTORY_MAX =>
                   new = Append(old, quote)
              /\ sym \in Range(symbols) /\ Len(old) >= HISTORY_MAX =>
                   /\ Len(new) = HISTORY_KEEP
                   /\ new[HISTORY_KEEP] = quote
                   /\ \A j \in 1..(HISTORY_KEEP - 1) :
                        new[j] = old[Len(old) - (HISTORY_KEEP - 1) + j]]_vars

\* the 51st quote of a symbol has just been stored: its history holds the
\* quotes 27 to 51, while the other symbol's history is untrimmed
C30_Witness ==
  /\ Len(priceHistory["ETH"]) = HISTORY_KEEP
  /\ priceHistory["ETH"][1].seq = HISTORY_MAX + 2 - HISTORY_KEEP
  /\ priceHistory["ETH"][HISTORY_KEEP].seq = HISTORY_MAX + 1
  /\ Len(priceHistory["BTC"]) > HISTORY_KEEP


\* a step of the cadence tick or sweep run by callback p
TickStep(p) ==
  \/ \E interval \in Intervals : TickStart(p, interval)
  \/ SweepStart(p)
  \/ \E r \in StoreResults : SelectUpsertDone(p, r)
  \/ \E resp \in FetchResults, missing \in MissingChoices : FetchDone(p, resp, missing)
  \/ \E r \in SendResults : EmSendDone(p, r) \/ AlSendDone(p, r) \/ MsgSendDone(p, r)
  \/ \E r \in StoreResults : AlDelDone(p, r)

\* C31 as stated: no step of a cadence tick or sweep changes a subscriber's
\* configuration, in memory or in the store.
C31_Stated ==
  [][\A p \in Procs :
       TickStep(p) => UNCHANGED << userSettings, known, settingsStore >>]_vars

\* past its selection loop a tick meets only chats that have a settings entry
SelectedAreKnown ==
  \A p \in Procs :
    tk[p].pc \notin {"idle", "select"} => Range(subscribedChats) \subseteq known


\* C32 as stated: a scheduled update is sent only to a chat that is subscribed
\* at that moment and configured for the tick's cadence.
C32_Stated ==
  \A p \in Procs :
    tk[p].pc = "msgSend" =>
      LET c == tk[p].messages[tk[p].k].chatId
      IN /\ Includes(subscribedChats, c)
         /\ userSettings[c].updateInterval = tk[p].interval

\* C32: a cadence tick selects, when it fires, exactly the subscribed chats
\* configured for its cadence, in the order of the subscribed set; the
\* selection stays as it is while the tick runs, and a tick that reaches its
\* dispatch sends one update to each selected chat, in that order, and to no
\* other chat.
C32_DispatchToSelected ==
  [][\A p \in Procs :
       /\ \A interval \in Intervals :
            TickStart(p, interval) =>
              tk'[p].targetChats = TargetChats(subscribedChats, interval)
       /\ tk[p].pc \notin {"idle", "select"} /\ tk'[p].pc # "idle" =>
            tk'[p].targetChats = tk[p].targetChats
       /\ tk'[p].pc = "msgSend" =>
            /\ [j \in 1..Len(tk'[p].messages) |-> tk'[p].messages[j].chatId]
                 = tk'[p].targetChats
            /\ \A c \in Range(tk'[p].targetChats) :
                 userSettings[c].updateInterval = tk'[p].interval
            /\ tk'[p].k = IF tk[p].pc = "msgSend" THEN tk[p].k + 1 ELSE 1
       /\ tk[p].pc = "msgSend" /\ tk'[p].pc = "idle" =>
            tk[p].k = Len(tk[p].messages)]_vars

\* the update of the only chat on the tick's cadence is being sent while the
\* other subscribed chat is on another cadence
C32_Witness ==
  /\ tk[1].pc = "msgSend"
  /\ tk[1].targetChats = << 1 >>
  /\ subscribedChats = << 1, 2 >>
  /\ userSettings[2].updateInterval # tk[1].interval


\* the assets a list of quotes covers
Present(pd) == {findCryptoBySymbol(pd[n].symbol) : n \in 1..Len(pd)}

\* C33: when the response of a cadence tick lacks the quote of a requested
\* asset, the tick goes on with the quotes of all the other requested assets:
\* the first due emergency evaluation among them is sent, a threshold alert is
\* notified only for an asset that has a quote, and each selected chat's
\* message shows exactly its tracked assets that have a quote.
C33_MissingQuoteNotFatal ==
  [][\A p \in Procs :
       /\ \A missing \in MissingChoices :
            tk[p].interval # "sweep" /\ FetchDone(p, "ok", missing) =>
              LET pd == tk'[p].pricesData
                  pairs == DuePairs(0, NoSettings, 0, subscribedChats, pd,
                                    recentEmergencyAlerts)
              IN /\ Present(pd) = Range(tk[p].req) \ missing
                 /\ IF pairs = {}
                    THEN tk'[p].pc \in {"alSend", "msgSend"}
                    ELSE /\ tk'[p].pc = "emSend"
                         /\ tk'[p].chatId = subscribedChats[FirstPair(pairs)[1]]
                         /\ tk'[p].pend.cryptoId
                              = findCryptoBySymbol(pd[FirstPair(pairs)[2]].symbol)
       /\ tk'[p].pc = "alSend" => tk'[p].alert.cryptoId \in Present(tk'[p].pricesData)
       /\ tk'[p].pc = "msgSend" =>
            \A j \in 1..Len(tk'[p].messages) :
              Range(tk'[p].messages[j].content)
                = {SymbolOf(id) :
                     id \in Range(userSettings[tk'[p].messages[j].chatId].trackedCryptos)
                            \cap Present(tk'[p].pricesData)}]_vars

\* a chat's update is being sent without the quote of one of its tracked
\* assets, which the response lacked, and with the quote of another
C33_Witness ==
  /\ tk[1].pc = "msgSend"
  /\ LET m == tk[1].messages[tk[1].k]
     IN /\ m.content # << >>
        /\ \E id \in Range(userSettings[m.chatId].trackedCryptos) :
             /\ id \in Range(tk[1].req)
             /\ id \notin Present(tk[1].pricesData)


\* the ids of all alerts in the working set
WorkingIds(amap, heap) ==
  UNION {OwnerIds(amap, heap, amap[n].chatId) : n \in 1..Len(amap)}

C35_Stated ==
  [][\A p \in Procs :
       /\ AlSendDone(p, "ok") /\ MapGet(alerts, tk[p].achat) # tk[p].ua =>
            MapGet(alerts', tk[p].achat) = MapGet(alerts, tk[p].achat)
       /\ IssuesSend(p) /\ tk'[p].pc = "alSend" =>
            MapGet(alerts', tk'[p].achat) = tk'[p].ua]_vars


C37_FailedFetchHasNoEffect ==
  [][\A p \in Procs :
       /\ \A interval \in Intervals :
            TickStart(p, interval) =>
              /\ tk'[p].pc \in {"idle", "select", "fetch"}
              /\ UNCHANGED << subscribedChats, alerts, arrs, store,
                              recentEmergencyAlerts, firedAlerts, emDelivered >>
       /\ \A resp \in FetchResults \ {"ok"} :
            FetchDone(p, resp, {}) /\ tk[p].interval # "sweep" =>
              /\ tk[p].log = << >> /\ tk[p].alog = << >> /\ tk[p].messages = << >>
              /\ tk'[p] = IF resp = "429" /\ tk[p].attempt < MAX_RETRIES
                          THEN [tk[p] EXCEPT !.attempt = @ + 1, !.n429 = @ + 1]
                          ELSE IdleTk
              /\ UNCHANGED << subscribedChats, alerts, arrs, store,
                              recentEmergencyAlerts, firedAlerts, emDelivered >>]_vars

\* the last attempt of a cadence tick's request is in flight after two 429
\* answers, with subscribers selected and a threshold alert stored
C37_Witness ==
  /\ tk[1].pc = "fetch" /\ tk[1].interval # "sweep"
  /\ tk[1].attempt = MAX_RETRIES /\ tk[1].n429 = MAX_RETRIES - 1
  /\ tk[1].targetChats # << >>
  /\ alerts # << >>


\* the position from which checkEmergencyAlerts starts
EmScanStart ==
  [status |-> "run", ci |-> 0, chatId |-> 0, cs |-> NoSettings, pi |-> 0,
   pend |-> NoPend, log |-> << >>]

\* C38: the cleanup removes no entry younger than the one-hour window of the
\* repeat check, so it changes the verdict of that check for no key, now or at
\* any later time, and an evaluation of the whole catalog made right after the
\* cleanup comes out as it would have without it.
C38_PruneKeepsDedup ==
  [][Prune =>
       /\ \A key \in Keys :
            /\ recentEmergencyAlerts'[key] # recentEmergencyAlerts[key] =>
                 now - recentEmergencyAlerts[key] >= DEDUP_WINDOW_MS
            /\ \A d \in {0, ShortStepMs, LongStepMs, HalfWindowMs} :
                 Suppressed(recentEmergencyAlerts', key, now + d)
                   = Suppressed(recentEmergencyAlerts, key, now + d)
       /\ LET pd == PriceDataOf([n \in 1..Len(SUPPORTED_CRYPTOS) |->
                                   SUPPORTED_CRYPTOS[n].id], {})
          IN EmScan(subscribedChats, recentEmergencyAlerts', pd, EmScanStart)
               = EmScan(subscribedChats, recentEmergencyAlerts, pd, EmScanStart)]_vars

\* the cleanup is about to remove an entry while the entry of another key is
\* inside the one-hour window
C38_Witness ==
  /\ \E key \in Keys : /\ recentEmergencyAlerts[key] # 0
                       /\ Expired(recentEmergencyAlerts[key], now)
  /\ \E key \in Keys : Suppressed(recentEmergencyAlerts, key, now)


\* the attempts a running resolution can still make at most: those left of its
\* present request, and MAX_RETRIES for each provider after the present one and
\* for the price request that follows a balance
AttemptsLeft(r) ==
  IF r.pc \in {"idle", "done"} THEN 0
  ELSE (MAX_RETRIES - r.attempt) + 1
       + (IF r.pc = "provider"
          THEN (Len(Providers[r.chain]) - r.prov + 1) * MAX_RETRIES ELSE 0)

\* C39: a request never makes an attempt beyond the third, and every answer,
\* whichever it is, leaves a running resolution with fewer attempts left; a
\* provider chain tries each provider once, in order, with at most three
\* attempts each, and ends with a provider's result or with none.
C39_ResolutionTerminates ==
  [][/\ rq'.attempt \in 0..MAX_RETRIES
     /\ rq.pc \notin {"idle", "done"} =>
          /\ AttemptsLeft(rq') < AttemptsLeft(rq)
          /\ rq.attempt = MAX_RETRIES => rq'.pc # rq.pc \/ rq'.prov # rq.prov
     /\ rq'.kind = "wallet" =>
          /\ Len(rq'.tried) <= Len(Providers[rq'.chain])
          /\ \A n \in 1..Len(rq'.tried) :
               rq'.tried[n].prov = n /\ rq'.tried[n].attempts \in 1..MAX_RETRIES
     /\ rq'.pc = "done" /\ rq'.kind = "wallet" =>
          rq'.result \in 0..Len(Providers[rq'.chain])]_vars

\* a balance resolution has ended without a result after three attempts at
\* each of its three providers
C39_Witness ==
  /\ rq.pc = "done" /\ rq.kind = "wallet" /\ rq.result = 0
  /\ Len(rq.tried) = Len(Providers[rq.chain])
  /\ \A n \in 1..Len(rq.tried) : rq.tried[n].attempts = MAX_RETRIES

====
